---------------------------- MODULE Spec2Model ----------------------------
(***************************************************************************)
(* A model of the QMDD engine (class qmdd) and of the circuit compiler     *)
(* (decode) of src/main.cpp.                                               *)
(*                                                                         *)
(* Handles are the 0-based uint32 values of the source; the h-th element   *)
(* of a std::vector or of the node pool is element h + 1 of the sequence   *)
(* that models it.  The all-ones handles invalid_node and invalid_weight   *)
(* are written -1.  The two direct-mapped caches and the open-addressed    *)
(* unique table are functions whose domain is the set of slots written so  *)
(* far: a slot outside the domain holds what the constructor put there     *)
(* (invalid handles), which no lookup with valid handles matches.          *)
(***************************************************************************)
EXTENDS Integers, Sequences, FiniteSets, TLC

(***************************************************************************)
(* Bounds of the model.                                                    *)
(***************************************************************************)
MaxVars == 2
MaxGates == 1
MaxRevGates == 2
MaxRevVars == 3
MaxHFGates == 3
PoolBits == 3
MaxNormHandle == 2
MaxItems == 3
MaxPcnt == 3
MaxLines == 7
MaxParseGates == 1

(***************************************************************************)
(* Program constants.                                                      *)
(***************************************************************************)
p == 2
capacity == 1048576
computed_table_ctsize == 1024
computed_weights_ctsize == 1024
invalid_node == -1
invalid_weight == -1
weight_0_handle == 0
weight_1_handle == 1

edge_op_add == 0
edge_op_mul == 1
edge_op_kro == 2

weight_op_add == 0
weight_op_sub == 1
weight_op_mul == 2
weight_op_div == 3

toffoli == 0
fredkin == 1
pauli_y == 2
pauli_z == 3
sqrtnot == 4
inv_sqrtnot == 5
hadamard == 6
rotate_pi_by_4 == 7
inv_rotate_pi_by_4 == 8

(***************************************************************************)
(* C++ integer division and remainder (truncation toward zero).  The       *)
(* arithmetic of the classes rational, irrational and weight is written as *)
(* functions, whose arguments are values as the arguments of the C++       *)
(* functions are.                                                          *)
(***************************************************************************)
Abs[n \in Int] == IF n < 0 THEN -n ELSE n

TruncDiv[a \in Int, b \in Int] ==
    IF (a < 0) # (b < 0) THEN -(Abs[a] \div Abs[b]) ELSE Abs[a] \div Abs[b]

TruncRem[a \in Int, b \in Int] == a - b * TruncDiv[a, b]

(***************************************************************************)
(* class rational: a record [num, den].  Where the source names an         *)
(* intermediate value (gcd1, g, denom, ...) and uses it more than once,    *)
(* the value is the last parameter of the operator that models the         *)
(* statements after its computation.                                       *)
(***************************************************************************)
gcd_euclidean[a \in Int, b \in Int] ==
    IF b = 0 THEN a ELSE gcd_euclidean[b, TruncRem[a, b]]

\* result = gcd_euclidean(a, b); return result < 0 ? -result : result
gcd[a \in Int, b \in Int] == Abs[gcd_euclidean[a, b]]

Rational == [num : Int, den : Int]

rational[n \in Int] == [num |-> n, den |-> 1]

\* g = gcd(num, g); num /= g; den *= r_den / g
rational_add_reduce[num1 \in Int, den1 \in Int, r_den \in Int, g2 \in Int] ==
    [num |-> TruncDiv[num1, g2], den |-> den1 * TruncDiv[r_den, g2]]

\* den /= g; num = num * (r_den / g) + r_num * den
rational_add_g[x \in Rational, other \in Rational, g1 \in Int] ==
    rational_add_reduce[
        x.num * TruncDiv[other.den, g1] + other.num * TruncDiv[x.den, g1],
        TruncDiv[x.den, g1], other.den,
        gcd[x.num * TruncDiv[other.den, g1] + other.num * TruncDiv[x.den, g1],
            g1]]

rational_add[x \in Rational, other \in Rational] ==
    rational_add_g[x, other, gcd[x.den, other.den]]

\* den /= g; num = num * (r_den / g) - r_num * den
rational_sub_g[x \in Rational, other \in Rational, g1 \in Int] ==
    rational_add_reduce[
        x.num * TruncDiv[other.den, g1] - other.num * TruncDiv[x.den, g1],
        TruncDiv[x.den, g1], other.den,
        gcd[x.num * TruncDiv[other.den, g1] - other.num * TruncDiv[x.den, g1],
            g1]]

rational_sub[x \in Rational, other \in Rational] ==
    rational_sub_g[x, other, gcd[x.den, other.den]]

\* num = (num / gcd1) * (r_num / gcd2); den = (den / gcd2) * (r_den / gcd1)
rational_mul_g[x \in Rational, other \in Rational, gcd1 \in Int, gcd2 \in Int] ==
    [num |-> TruncDiv[x.num, gcd1] * TruncDiv[other.num, gcd2],
     den |-> TruncDiv[x.den, gcd2] * TruncDiv[other.den, gcd1]]

rational_mul[x \in Rational, other \in Rational] ==
    rational_mul_g[x, other, gcd[x.num, other.den], gcd[other.num, x.den]]

\* if (den < 0) { num = -num; den = -den; }
rational_div_sign[num1 \in Int, den1 \in Int] ==
    IF den1 < 0 THEN [num |-> -num1, den |-> -den1]
                ELSE [num |-> num1, den |-> den1]

\* num = (num / gcd1) * (r_den / gcd2); den = (den / gcd2) * (r_num / gcd1)
rational_div_g[x \in Rational, other \in Rational, gcd1 \in Int, gcd2 \in Int] ==
    rational_div_sign[TruncDiv[x.num, gcd1] * TruncDiv[other.den, gcd2],
                      TruncDiv[x.den, gcd2] * TruncDiv[other.num, gcd1]]

\* assert(r_num != 0) guards the call; the engine divides by non-zero weights only.
rational_div[x \in Rational, other \in Rational] ==
    IF x.num = 0 THEN x
    ELSE rational_div_g[x, other, gcd[x.num, other.num], gcd[other.den, x.den]]

(***************************************************************************)
(* class irrational: intpart + sqrt2part * sqrt(2).                        *)
(***************************************************************************)
Irrational == [intpart : Rational, sqrt2part : Rational]

irrational[i \in Rational, sq2 \in Rational] ==
    [intpart |-> i, sqrt2part |-> sq2]

irrational_add[x \in Irrational, other \in Irrational] ==
    irrational[rational_add[x.intpart, other.intpart],
               rational_add[x.sqrt2part, other.sqrt2part]]

irrational_sub[x \in Irrational, other \in Irrational] ==
    irrational[rational_sub[x.intpart, other.intpart],
               rational_sub[x.sqrt2part, other.sqrt2part]]

\* Variant that multiplies the sqrt2 parts without the factor 2.
irrational_mul_without_2(x, other) ==
    LET a == x.intpart
        b == x.sqrt2part
        c == other.intpart
        d == other.sqrt2part
    IN  irrational[
            rational_add[rational_mul[a, c], rational_mul[b, d]],
            rational_add[rational_mul[a, d], rational_mul[b, c]]]

irrational_mul(x, other) ==
    LET a == x.intpart
        b == x.sqrt2part
        c == other.intpart
        d == other.sqrt2part
    IN  irrational[
            rational_add[rational_mul[a, c],
                         rational_mul[rational_mul[rational[2], b], d]],
            rational_add[rational_mul[a, d], rational_mul[b, c]]]

\* The quotient with denom = c*c - 2*d*d already computed.
irrational_div_denom[x \in Irrational, other \in Irrational, denom \in Rational] ==
    LET a == x.intpart
        b == x.sqrt2part
        c == other.intpart
        d == other.sqrt2part
    IN  irrational[
            rational_div[rational_sub[rational_mul[a, c],
                             rational_mul[rational_mul[rational[2], b], d]],
                         denom],
            rational_div[rational_sub[rational_mul[b, c], rational_mul[a, d]],
                         denom]]

irrational_div[x \in Irrational, other \in Irrational] ==
    irrational_div_denom[x, other,
        rational_sub[rational_mul[other.intpart, other.intpart],
                     rational_mul[rational_mul[rational[2], other.sqrt2part],
                                  other.sqrt2part]]]

(***************************************************************************)
(* class weight: real + imag * i.                                          *)
(***************************************************************************)
Weight == [real : Irrational, imag : Irrational]

weight[re \in Irrational, im \in Irrational] == [real |-> re, imag |-> im]

weight_zero == weight[irrational[rational[0], rational[0]],
                      irrational[rational[0], rational[0]]]

weight_one == weight[irrational[rational[1], rational[0]],
                     irrational[rational[0], rational[0]]]

weight_i == weight[irrational[rational[0], rational[0]],
                   irrational[rational[1], rational[0]]]

weight_sq2 == weight[irrational[rational[0], rational[1]],
                     irrational[rational[0], rational[0]]]

weight_add[x \in Weight, other \in Weight] ==
    weight[irrational_add[x.real, other.real], irrational_add[x.imag, other.imag]]

weight_sub[x \in Weight, other \in Weight] ==
    weight[irrational_sub[x.real, other.real], irrational_sub[x.imag, other.imag]]

\* Variant that adds the product of the imaginary parts.
weight_mul_real_plus(x, other) ==
    LET a == x.real
        b == x.imag
        c == other.real
        d == other.imag
    IN  weight[irrational_add[irrational_mul(a, c), irrational_mul(b, d)],
               irrational_add[irrational_mul(a, d), irrational_mul(b, c)]]

weight_mul(x, other) ==
    LET a == x.real
        b == x.imag
        c == other.real
        d == other.imag
    IN  weight[irrational_sub[irrational_mul(a, c), irrational_mul(b, d)],
               irrational_add[irrational_mul(a, d), irrational_mul(b, c)]]

\* The quotient with denom = c*c + d*d already computed.
weight_div_denom[x \in Weight, other \in Weight, denom \in Irrational] ==
    LET a == x.real
        b == x.imag
        c == other.real
        d == other.imag
    IN  weight[irrational_div[irrational_add[irrational_mul(a, c),
                                             irrational_mul(b, d)], denom],
               irrational_div[irrational_sub[irrational_mul(b, c),
                                             irrational_mul(a, d)], denom]]

weight_div[x \in Weight, other \in Weight] ==
    weight_div_denom[x, other,
        irrational_add[irrational_mul(other.real, other.real),
                       irrational_mul(other.imag, other.imag)]]

(***************************************************************************)
(* The engine object dd (class qmdd) is a record:                          *)
(*   num_vars    the argument of the constructor                           *)
(*   capacity    unique_table::capacity, the size of node_pool and table   *)
(*   node_pool   unique_table::node_pool[0 .. pool_head - 1]               *)
(*   table       unique_table::table, slot -> node handle                  *)
(*   weights     unique_weights::weights                                   *)
(*   computedtb  computed_table::cache, slot -> entry                      *)
(*   computedwt  computed_weights::cache, slot -> entry                    *)
(*   aborted     the process was ended by std::abort or a failed assert    *)
(*   memo        TRUE in every state of the program; FALSE only in the     *)
(*               reference evaluation in which both caches always miss     *)
(*   made        history: the arguments of every make_node call            *)
(*   returned    history: the edges returned by apply calls                *)
(* An operation that changes the engine returns [dd |-> the engine after,  *)
(* r |-> the value returned].  A statement whose result is used by more    *)
(* than one later statement passes it as the last parameter of the         *)
(* operator that models the statements after it.                           *)
(***************************************************************************)
Ret(d, val) == [dd |-> d, r |-> val]

edge(ww, vv) == [w |-> ww, v |-> vv]

edge_of_node(vv) == edge(weight_1_handle, vv)

\* edge(m, vv) for a weight handle m returned by an engine call
edge_of_weight(m, vv) == Ret(m.dd, edge(m.r, vv))

\* edge(ww, n) for a node handle n returned by an engine call
edge_to_node(ww, n) == Ret(n.dd, edge(ww, n.r))

Slots == 0 .. (p * p - 1)

\* A std::array of p*p = 4 elements, as a tuple.
array(f) == <<f[1], f[2], f[3], f[4]>>

node(var, children, weights) ==
    [var |-> var, children |-> array(children), weights |-> array(weights)]

(***************************************************************************)
(* class unique_weights                                                    *)
(***************************************************************************)
unique_weights_init == <<weight_zero, weight_one>>

\* Variant of insert without the search: every call appends.
unique_weights_insert_append(dd, wt) ==
    Ret([dd EXCEPT !.weights = Append(@, wt)], Len(dd.weights))

unique_weights_insert(dd, wt) ==
    LET found == {i \in 1 .. Len(dd.weights) : dd.weights[i] = wt}
    IN  IF found # {}
        THEN Ret(dd, (CHOOSE i \in found : \A j \in found : i <= j) - 1)
        ELSE Ret([dd EXCEPT !.weights = Append(@, wt)], Len(dd.weights))

get_weight_value(dd, h) == dd.weights[h + 1]

(***************************************************************************)
(* class computed_weights                                                  *)
(***************************************************************************)
computed_weights_hash(w0, w1, op) == (w0 + w1 + op) % computed_weights_ctsize

computed_weights_find(dd, w0, w1, op) ==
    LET key == computed_weights_hash(w0, w1, op)
    IN  IF /\ dd.memo
           /\ key \in DOMAIN dd.computedwt
           /\ dd.computedwt[key].w0 = w0
           /\ dd.computedwt[key].w1 = w1
           /\ dd.computedwt[key].op = op
        THEN dd.computedwt[key].result
        ELSE invalid_weight

computed_weights_insert(dd, w0, w1, op, res) ==
    LET key == computed_weights_hash(w0, w1, op)
        entry == [w0 |-> w0, w1 |-> w1, op |-> op, result |-> res]
    IN  IF dd.memo
        THEN [dd EXCEPT !.computedwt = (key :> entry) @@ @]
        ELSE dd

(***************************************************************************)
(* qmdd::apply(weight_handle, weight_handle, weight_op)                    *)
(***************************************************************************)
\* The switch over op.
apply_weight_op(x0, x1, op) ==
    CASE op = weight_op_add -> weight_add[x0, x1]
      [] op = weight_op_sub -> weight_sub[x0, x1]
      [] op = weight_op_mul -> weight_mul(x0, x1)
      [] op = weight_op_div -> weight_div[x0, x1]

\* computedwt.insert(w0, w1, op, new_weight_handle); return new_weight_handle
apply_weight_insert(w0, w1, op, ins) ==
    Ret(computed_weights_insert(ins.dd, w0, w1, op, ins.r), ins.r)

\* The body of the overload for weight handles.
apply_weight_handles(dd, w0, w1, op) ==
    IF dd.aborted THEN Ret(dd, invalid_weight)
    ELSE
    LET found == computed_weights_find(dd, w0, w1, op)
    IN  IF found # invalid_weight
        THEN Ret(dd, found)
        ELSE apply_weight_insert(w0, w1, op,
                 unique_weights_insert(dd,
                     apply_weight_op(get_weight_value(dd, w0),
                                     get_weight_value(dd, w1), op)))

\* qmdd::apply is an overload set: qmdd_apply resolves a call to the
\* overload for weight handles or to the one for edges.
RECURSIVE qmdd_apply(_, _, _, _, _)

\* dd.apply(w0, w1, op) with weight handles
apply_weight(dd, w0, w1, op) == qmdd_apply(dd, "weight_handle", w0, w1, op)

\* dd.apply(e0, e1, op) with edges
apply(dd, e0, e1, op) == qmdd_apply(dd, "edge", e0, e1, op)

get_weight_i_handle(dd) == unique_weights_insert(dd, weight_i)

get_weight_sq2_handle(dd) == unique_weights_insert(dd, weight_sq2)

(***************************************************************************)
(* class unique_table                                                      *)
(***************************************************************************)
get_true(dd) == 0

\* to_node; a call with invalid_node happens only after the process aborted.
to_node(dd, h) ==
    IF h = invalid_node
    THEN node(dd.num_vars, <<0, 0, 0, 0>>, <<1, 1, 1, 1>>)
    ELSE dd.node_pool[h + 1]

get_var(dd, h) == to_node(dd, h).var

get_child(dd, h, i) == to_node(dd, h).children[i + 1]

get_weight(dd, h, i) == to_node(dd, h).weights[i + 1]

\* Variant of the constructor that enters the terminal into the table.
unique_table_init_with_terminal(num_vars) ==
    [node_pool |-> <<node(num_vars,
                          [i \in 1 .. p * p |-> 0],
                          [i \in 1 .. p * p |-> weight_1_handle])>>,
     table |-> (0 :> 0)]

unique_table_init(num_vars) ==
    [node_pool |-> <<node(num_vars,
                          [i \in 1 .. p * p |-> 0],
                          [i \in 1 .. p * p |-> weight_1_handle])>>,
     table |-> <<>>]

unique_table_hash(dd, var, children, weights) ==
    (var + children[1] + weights[1] + children[2] + weights[2]
         + children[3] + weights[3] + children[4] + weights[4]) % dd.capacity

\* Variant of pool_alloc without the test of pool_head against capacity.
pool_alloc_unchecked(dd, n, key) ==
    Ret([dd EXCEPT !.node_pool = Append(@, n),
                   !.table = (key :> Len(dd.node_pool)) @@ @],
        Len(dd.node_pool))

\* pool_alloc followed by the write of the new node and of its table slot.
pool_alloc(dd, n, key) ==
    IF Len(dd.node_pool) >= dd.capacity
    THEN Ret([dd EXCEPT !.aborted = TRUE], invalid_node)
    ELSE Ret([dd EXCEPT !.node_pool = Append(@, n),
                        !.table = (key :> Len(dd.node_pool)) @@ @],
             Len(dd.node_pool))

\* Variant of the probe loop that does not step to the next slot: a
\* colliding node takes the slot over.
unique_table_probe_no_step(dd, n, key) ==
    IF key \in DOMAIN dd.table /\ to_node(dd, dd.table[key]) = n
    THEN Ret(dd, dd.table[key])
    ELSE pool_alloc(dd, n, key)

RECURSIVE unique_table_probe(_, _, _)
unique_table_probe(dd, n, key) ==
    IF key \notin DOMAIN dd.table
    THEN pool_alloc(dd, n, key)
    ELSE IF to_node(dd, dd.table[key]) = n
         THEN Ret(dd, dd.table[key])
         ELSE unique_table_probe(dd, n, (key + 1) % dd.capacity)

unique_table_insert(dd, var, children, weights) ==
    unique_table_probe(dd, node(var, children, weights),
                       unique_table_hash(dd, var, children, weights))

(***************************************************************************)
(* qmdd::qmdd and qmdd::make_node                                          *)
(***************************************************************************)
qmdd_init(num_vars) ==
    [num_vars |-> num_vars,
     capacity |-> capacity,
     node_pool |-> unique_table_init(num_vars).node_pool,
     table |-> unique_table_init(num_vars).table,
     weights |-> unique_weights_init,
     computedtb |-> <<>>,
     computedwt |-> <<>>,
     aborted |-> FALSE,
     memo |-> TRUE,
     made |-> {},
     returned |-> {}]

\* Variant of make_node without the no-redundancy test.
make_node_always_insert(dd, var, children, weights) ==
    IF dd.aborted THEN Ret(dd, invalid_node)
    ELSE unique_table_insert(
             [dd EXCEPT !.made = @ \cup {node(var, children, weights)}],
             var, children, weights)

\* Variant of make_node whose no-redundancy test looks at the weights only.
make_node_weights_only(dd, var, children, weights) ==
    IF dd.aborted THEN Ret(dd, invalid_node)
    ELSE IF \A i \in 0 .. (p * p - 2) : weights[i + 1] = weights[i + 2]
         THEN Ret(dd, children[1])
         ELSE unique_table_insert(dd, var, children, weights)

make_node(dd, var, children, weights) ==
    IF dd.aborted THEN Ret(dd, invalid_node)
    ELSE
    LET redundant == \A i \in 0 .. (p * p - 2) :
                        /\ children[i + 1] = children[i + 2]
                        /\ weights[i + 1] = weights[i + 2]
        logged == [dd EXCEPT !.made = @ \cup {node(var, children, weights)}]
    IN  IF redundant
        THEN Ret(logged, children[1])
        ELSE unique_table_insert(logged, var, children, weights)

(***************************************************************************)
(* class computed_table                                                    *)
(***************************************************************************)
computed_table_hash(e0, e1, op) ==
    (e0.v + e1.v + e0.w + e1.w + op) % computed_table_ctsize

\* Variant of find that does not compare the second edge of the entry.
computed_table_find_any_e1(dd, e0, e1, op) ==
    LET key == computed_table_hash(e0, e1, op)
    IN  IF /\ dd.memo
           /\ key \in DOMAIN dd.computedtb
           /\ dd.computedtb[key].e0 = e0
           /\ dd.computedtb[key].op = op
        THEN dd.computedtb[key].result
        ELSE edge(invalid_weight, invalid_node)

computed_table_find(dd, e0, e1, op) ==
    LET key == computed_table_hash(e0, e1, op)
    IN  IF /\ dd.memo
           /\ key \in DOMAIN dd.computedtb
           /\ dd.computedtb[key].e0 = e0
           /\ dd.computedtb[key].e1 = e1
           /\ dd.computedtb[key].op = op
        THEN dd.computedtb[key].result
        ELSE edge(invalid_weight, invalid_node)

computed_table_insert(dd, e0, e1, op, res) ==
    LET key == computed_table_hash(e0, e1, op)
        entry == [e0 |-> e0, e1 |-> e1, op |-> op, result |-> res]
    IN  IF dd.memo
        THEN [dd EXCEPT !.computedtb = (key :> entry) @@ @]
        ELSE dd

(***************************************************************************)
(* qmdd::apply(edge, edge, edge_op) and its apply_helper.  The arrays      *)
(* z_children and z_weights of add, mul and kro travel with the engine in  *)
(* a record z = [dd, z_children, z_weights].                               *)
(***************************************************************************)
w(e) == e.w

v(e) == e.v

x(dd, e) == get_var(dd, e.v)

Ei(dd, e, i) == edge(get_weight(dd, e.v, i), get_child(dd, e.v, i))

term(dd, e) == e.v = get_true(dd)

\* children[j] = dd->apply(children[j], edge_weight, weight_op_div), where
\* n = [dd, children, r] and r is edge_weight.
normalize_child(n, j, q) ==
    [dd |-> q.dd, children |-> [n.children EXCEPT ![j + 1] = q.r], r |-> n.r]

\* Variant of the inner loop that leaves the weights after the first
\* non-zero one as they are.
normalize_rest_undivided(n, j) == n

\* The inner loop of normalize, from index j on.
RECURSIVE normalize_rest(_, _)
normalize_rest(n, j) ==
    IF j >= p * p \/ n.dd.aborted THEN n
    ELSE IF n.children[j + 1] # weight_0_handle
         THEN normalize_rest(
                  normalize_child(n, j,
                      apply_weight(n.dd, n.children[j + 1], n.r, weight_op_div)),
                  j + 1)
         ELSE normalize_rest(n, j + 1)

\* Variant of normalize that returns weight_1_handle when all weights are 0.
normalize_zero_as_one(dd, children) ==
    LET nz == {i \in Slots : children[i + 1] # weight_0_handle}
        i == CHOOSE k \in nz : \A m \in nz : k <= m
    IN  IF nz = {}
        THEN [dd |-> dd, children |-> children, r |-> weight_1_handle]
        ELSE normalize_rest([dd |-> dd,
                             children |-> [children EXCEPT ![i + 1] = weight_1_handle],
                             r |-> children[i + 1]],
                            i + 1)

\* Returns the engine, the rewritten array and the extracted factor.
normalize(dd, children) ==
    LET nz == {i \in Slots : children[i + 1] # weight_0_handle}
        i == CHOOSE k \in nz : \A m \in nz : k <= m
    IN  IF nz = {}
        THEN [dd |-> dd, children |-> children, r |-> weight_0_handle]
        ELSE normalize_rest([dd |-> dd,
                             children |-> [children EXCEPT ![i + 1] = weight_1_handle],
                             r |-> children[i + 1]],
                            i + 1)

\* z_children and z_weights before the loops.
z_init(dd) ==
    [dd |-> dd,
     z_children |-> array([i \in 1 .. p * p |-> invalid_node]),
     z_weights |-> array([i \in 1 .. p * p |-> invalid_weight])]

\* z_children[i] = zi.v; z_weights[i] = zi.w
z_store(z, i, zi) ==
    [dd |-> zi.dd,
     z_children |-> [z.z_children EXCEPT ![i + 1] = zi.r.v],
     z_weights |-> [z.z_weights EXCEPT ![i + 1] = zi.r.w]]

\* edge(new_weight, dd->make_node(var, z_children, z_weights)) after normalize
z_make_node(z, var, n) ==
    edge_to_node(n.r, make_node(n.dd, var, z.z_children, n.children))

\* new_weight = normalize(z_weights) and the statements after it (add, mul)
z_normalize(z, var) ==
    IF z.dd.aborted THEN Ret(z.dd, edge(invalid_weight, invalid_node))
    ELSE z_make_node(z, var, normalize(z.dd, z.z_weights))

\* Variant of q0 / q1 that drops the weight of the edge e.
scaled_child_unscaled(dd, e, i) == Ret(dd, Ei(dd, e, i))

\* edge(dd->apply(w(e), w(Ei(e, i)), weight_op_mul), v(Ei(e, i)))
scaled_child(dd, e, i) ==
    edge_of_weight(apply_weight(dd, w(e), w(Ei(dd, e, i)), weight_op_mul),
                   v(Ei(dd, e, i)))

\* Variant of q1 that passes e1 itself also when x(e0) == x(e1).
second_operand_whole(dd, e0, e1, i) == Ret(dd, e1)

\* q1 of add and mul: the scaled child i of e1 if x(e0) == x(e1), else e1
second_operand(dd, e0, e1, i) ==
    IF x(dd, e0) = x(dd, e1) THEN scaled_child(dd, e1, i) ELSE Ret(dd, e1)

RECURSIVE add(_, _, _)
RECURSIVE add_quadrants(_, _, _, _)
RECURSIVE mul(_, _, _)
RECURSIVE mul_sum(_, _, _, _, _, _)
RECURSIVE mul_quadrants(_, _, _, _)
RECURSIVE kro(_, _, _)
RECURSIVE kro_quadrants(_, _, _, _)

\* dd->apply(q0, q1, op) with q0 and q1 returned by engine calls
apply_q0_q1(q0, q1, op) == apply(q1.dd, q0, q1.r, op)

\* q1 and zi of one iteration of add, q0 computed
add_quadrant_q1(e0, e1, i, q0) ==
    apply_q0_q1(q0.r, second_operand(q0.dd, e0, e1, i), edge_op_add)

\* The loop "for (i = 0; i < p*p; i++)" of add, from index i on.
add_quadrants(z, e0, e1, i) ==
    IF i >= p * p \/ z.dd.aborted THEN z
    ELSE add_quadrants(
             z_store(z, i, add_quadrant_q1(e0, e1, i, scaled_child(z.dd, e0, i))),
             e0, e1, i + 1)

\* Variant of add whose terminal case subtracts the weights.
add_terminal_sub(dd, e0, e1) ==
    IF term(dd, e0) /\ w(e0) = weight_0_handle
    THEN Ret(dd, e1)
    ELSE IF term(dd, e0) /\ term(dd, e1)
    THEN edge_of_weight(apply_weight(dd, w(e0), w(e1), weight_op_sub),
                        get_true(dd))
    ELSE IF x(dd, e0) > x(dd, e1)
    THEN add(dd, e1, e0)
    ELSE z_normalize(add_quadrants(z_init(dd), e0, e1, 0), x(dd, e0))

add(dd, e0, e1) ==
    IF term(dd, e0) /\ w(e0) = weight_0_handle
    THEN Ret(dd, e1)
    ELSE IF term(dd, e0) /\ term(dd, e1)
    THEN edge_of_weight(apply_weight(dd, w(e0), w(e1), weight_op_add),
                        get_true(dd))
    ELSE IF x(dd, e0) > x(dd, e1)
    THEN add(dd, e1, e0)
    ELSE z_normalize(add_quadrants(z_init(dd), e0, e1, 0), x(dd, e0))

\* Variant of q1 that indexes e1 by j + k.
mul_term_q1_row(e0, e1, j, k, q0) ==
    apply_q0_q1(q0.r, second_operand(q0.dd, e0, e1, j + k), edge_op_mul)

\* q1 and q0q1 of one iteration of the loop over k, q0 computed
mul_term_q1(e0, e1, j, k, q0) ==
    apply_q0_q1(q0.r, second_operand(q0.dd, e0, e1, j + p * k), edge_op_mul)

\* zij = dd->apply(zij, q0q1, edge_op_add)
mul_sum_add(zij, q0q1) ==
    IF q0q1.dd.aborted THEN q0q1
    ELSE apply(q0q1.dd, zij, q0q1.r, edge_op_add)

\* The loop "for (k = 0; k < p; k++)" of mul for one (i, j), from index k on;
\* s = [dd, r] with r the value of zij.
mul_sum(s, e0, e1, i, j, k) ==
    IF k >= p \/ s.dd.aborted THEN s
    ELSE mul_sum(mul_sum_add(s.r, mul_term_q1(e0, e1, j, k,
                                      scaled_child(s.dd, e0, i + k))),
                 e0, e1, i, j, k + 1)

\* The loops over i (step p) and j of mul; slot = i + j runs over 0 .. p*p-1.
mul_quadrants(z, e0, e1, slot) ==
    IF slot >= p * p \/ z.dd.aborted THEN z
    ELSE mul_quadrants(
             z_store(z, slot,
                     mul_sum(Ret(z.dd, edge(weight_0_handle, get_true(z.dd))),
                             e0, e1, (slot \div p) * p, slot % p, 0)),
             e0, e1, slot + 1)

\* Variant of mul whose product with the zero edge keeps the node of e1.
mul_zero_keeps_node(dd, e0, e1) ==
    IF term(dd, e0)
    THEN IF w(e0) = weight_0_handle THEN Ret(dd, edge(weight_0_handle, v(e1)))
         ELSE IF w(e0) = weight_1_handle THEN Ret(dd, e1)
         ELSE edge_of_weight(apply_weight(dd, w(e0), w(e1), weight_op_mul),
                             v(e1))
    ELSE IF x(dd, e0) > x(dd, e1)
    THEN add(dd, e1, e0)
    ELSE z_normalize(mul_quadrants(z_init(dd), e0, e1, 0), x(dd, e0))

mul(dd, e0, e1) ==
    IF term(dd, e0)
    THEN IF w(e0) = weight_0_handle THEN Ret(dd, e0)
         ELSE IF w(e0) = weight_1_handle THEN Ret(dd, e1)
         ELSE edge_of_weight(apply_weight(dd, w(e0), w(e1), weight_op_mul),
                             v(e1))
    ELSE IF x(dd, e0) > x(dd, e1)
    THEN add(dd, e1, e0)
    ELSE z_normalize(mul_quadrants(z_init(dd), e0, e1, 0), x(dd, e0))

\* The loop "for (i = 0; i < p*p; i++)" of kro, from index i on.
kro_quadrants(z, e0, e1, i) ==
    IF i >= p * p \/ z.dd.aborted THEN z
    ELSE kro_quadrants(
             z_store(z, i, apply(z.dd, Ei(z.dd, e0, i), e1, edge_op_kro)),
             e0, e1, i + 1)

\* edge(new_weight, dd->make_node(var, z_children, z_weights)) of kro
kro_make_node(z, var, n, new_weight) ==
    edge_to_node(new_weight.r,
                 make_node(new_weight.dd, var, z.z_children, n.children))

\* Variant that leaves the weight of e0 out of the new weight.
kro_new_weight_without_e0(z, var, e0, n) ==
    kro_make_node(z, var, n, Ret(n.dd, n.r))

\* new_weight = dd->apply(new_weight, w(e0), weight_op_mul) and what follows
kro_new_weight(z, var, e0, n) ==
    kro_make_node(z, var, n, apply_weight(n.dd, n.r, w(e0), weight_op_mul))

\* new_weight = normalize(z_weights) and the statements after it (kro)
kro_normalize(z, var, e0) ==
    IF z.dd.aborted THEN Ret(z.dd, edge(invalid_weight, invalid_node))
    ELSE kro_new_weight(z, var, e0, normalize(z.dd, z.z_weights))

\* Variant of kro that labels the new node with the variable of e1.
kro_var_of_e1(dd, e0, e1) ==
    IF term(dd, e0)
    THEN IF w(e0) = weight_0_handle THEN Ret(dd, e0)
         ELSE IF w(e0) = weight_1_handle THEN Ret(dd, e1)
         ELSE edge_of_weight(apply_weight(dd, w(e0), w(e1), weight_op_mul),
                             v(e1))
    ELSE IF ~(x(dd, e0) < x(dd, e1))
    THEN Ret([dd EXCEPT !.aborted = TRUE], edge(invalid_weight, invalid_node))
    ELSE kro_normalize(kro_quadrants(z_init(dd), e0, e1, 0), x(dd, e1), e0)

kro(dd, e0, e1) ==
    IF term(dd, e0)
    THEN IF w(e0) = weight_0_handle THEN Ret(dd, e0)
         ELSE IF w(e0) = weight_1_handle THEN Ret(dd, e1)
         ELSE edge_of_weight(apply_weight(dd, w(e0), w(e1), weight_op_mul),
                             v(e1))
    ELSE IF ~(x(dd, e0) < x(dd, e1))
    THEN \* assert(x(e0) < x(e1)) fails
         Ret([dd EXCEPT !.aborted = TRUE], edge(invalid_weight, invalid_node))
    ELSE kro_normalize(kro_quadrants(z_init(dd), e0, e1, 0), x(dd, e0), e0)

\* The switch over op.
apply_op(dd, e0, e1, op) ==
    CASE op = edge_op_add -> add(dd, e0, e1)
      [] op = edge_op_mul -> mul(dd, e0, e1)
      [] op = edge_op_kro -> kro(dd, e0, e1)

\* computedtb.insert(e0, e1, op, new_edge); return new_edge
apply_insert(e0, e1, op, new_edge) ==
    IF new_edge.dd.aborted
    THEN new_edge
    ELSE Ret([computed_table_insert(new_edge.dd, e0, e1, op, new_edge.r)
                 EXCEPT !.returned = @ \cup {new_edge.r}],
             new_edge.r)

\* The body of the overload for edges.
apply_edges(dd, e0, e1, op) ==
    IF dd.aborted THEN Ret(dd, edge(invalid_weight, invalid_node))
    ELSE
    LET found == computed_table_find(dd, e0, e1, op)
    IN  IF found.v # invalid_node
        THEN Ret([dd EXCEPT !.returned = @ \cup {found}], found)
        ELSE apply_insert(e0, e1, op, apply_op(dd, e0, e1, op))

qmdd_apply(dd, overload, a0, a1, op) ==
    IF overload = "weight_handle"
    THEN apply_weight_handles(dd, a0, a1, op)
    ELSE apply_edges(dd, a0, a1, op)

(***************************************************************************)
(* decode: the weight tables of the building blocks.                       *)
(***************************************************************************)
identity_children(dd) == array([i \in 1 .. p * p |-> get_true(dd)])

identity_weights ==
    array([s \in 1 .. p * p |-> IF (s - 1) \div p = (s - 1) % p
                          THEN weight_1_handle ELSE weight_0_handle])

not_weights ==
    array([s \in 1 .. p * p |-> IF (s - 1) \div p = (s - 1) % p
                          THEN weight_0_handle ELSE weight_1_handle])

if_false_weights ==
    array([s \in 1 .. p * p |-> IF s - 1 = 0 THEN weight_1_handle ELSE weight_0_handle])

if_true_weights ==
    array([s \in 1 .. p * p |-> IF s - 1 = p * p - 1
                          THEN weight_1_handle ELSE weight_0_handle])

\* The engine calls that compute the tables of y, z, sqrtnot, hadamard and
\* rotate, in the order of the source.  Each is dst = f(a, b, op); a and b
\* name handles computed before ("w0" and "w1" are weight_0_handle and
\* weight_1_handle); the handle of a get_weight_*_handle call written as an
\* argument is named "i" or "sq2".
call(dst, f, a, b, op) == [dst |-> dst, f |-> f, a |-> a, b |-> b, op |-> op]

decode_calls ==
    << call("i", "get_weight_i_handle", "w0", "w0", 0),
       call("y_weights[1]", "apply", "w0", "i", weight_op_sub),
       call("y_weights[2]", "get_weight_i_handle", "w0", "w0", 0),
       call("z_weights[3]", "apply", "w0", "w1", weight_op_sub),
       call("weight_2_handle", "apply", "w1", "w1", weight_op_add),
       call("i", "get_weight_i_handle", "w0", "w0", 0),
       call("one_add_i", "apply", "w1", "i", weight_op_add),
       call("one_add_i_by_2", "apply", "one_add_i", "weight_2_handle", weight_op_div),
       call("i", "get_weight_i_handle", "w0", "w0", 0),
       call("one_sub_i", "apply", "w1", "i", weight_op_sub),
       call("one_sub_i_by_2", "apply", "one_sub_i", "weight_2_handle", weight_op_div),
       call("sq2", "get_weight_sq2_handle", "w0", "w0", 0),
       call("h_one_by_sq2", "apply", "w1", "sq2", weight_op_div),
       call("hadamard_weights[3]", "apply", "w0", "h_one_by_sq2", weight_op_sub),
       call("sq2", "get_weight_sq2_handle", "w0", "w0", 0),
       call("one_by_sq2", "apply", "w1", "sq2", weight_op_div),
       call("i", "get_weight_i_handle", "w0", "w0", 0),
       call("sq2", "get_weight_sq2_handle", "w0", "w0", 0),
       call("i_by_sq2", "apply", "i", "sq2", weight_op_div),
       call("rotate_pi_by_4_weights[3]", "apply", "one_by_sq2", "i_by_sq2", weight_op_add),
       call("inv_rotate_pi_by_4_weights[3]", "apply", "one_by_sq2", "i_by_sq2", weight_op_sub) >>

\* t = [dd, h]: the engine and the handles computed so far, by name.
decode_assign(t, dst, res) == [dd |-> res.dd, h |-> (dst :> res.r) @@ t.h]

decode_call(t, c) ==
    decode_assign(t, c.dst,
        CASE c.f = "get_weight_i_handle" -> get_weight_i_handle(t.dd)
          [] c.f = "get_weight_sq2_handle" -> get_weight_sq2_handle(t.dd)
          [] c.f = "apply" -> apply_weight(t.dd, t.h[c.a], t.h[c.b], c.op))

RECURSIVE decode_calls_from(_, _)
decode_calls_from(t, k) ==
    IF k > Len(decode_calls) \/ t.dd.aborted THEN t
    ELSE decode_calls_from(decode_call(t, decode_calls[k]), k + 1)

\* gate_weights of each single-target opcode (the switch over opcode).
gate_weights_of(h) ==
    [op \in {toffoli, pauli_y, pauli_z, sqrtnot, inv_sqrtnot, hadamard,
             rotate_pi_by_4, inv_rotate_pi_by_4} |->
        CASE op = toffoli -> not_weights
          [] op = pauli_y ->
                <<weight_0_handle, h["y_weights[1]"], h["y_weights[2]"],
                  weight_0_handle>>
          [] op = pauli_z ->
                <<weight_1_handle, weight_0_handle, weight_0_handle,
                  h["z_weights[3]"]>>
          [] op = sqrtnot ->
                <<h["one_add_i_by_2"], h["one_sub_i_by_2"],
                  h["one_sub_i_by_2"], h["one_add_i_by_2"]>>
          [] op = inv_sqrtnot ->
                <<h["one_sub_i_by_2"], h["one_add_i_by_2"],
                  h["one_add_i_by_2"], h["one_sub_i_by_2"]>>
          [] op = hadamard ->
                <<h["h_one_by_sq2"], h["h_one_by_sq2"], h["h_one_by_sq2"],
                  h["hadamard_weights[3]"]>>
          [] op = rotate_pi_by_4 ->
                <<weight_1_handle, weight_0_handle, weight_0_handle,
                  h["rotate_pi_by_4_weights[3]"]>>
          [] op = inv_rotate_pi_by_4 ->
                <<weight_1_handle, weight_0_handle, weight_0_handle,
                  h["inv_rotate_pi_by_4_weights[3]"]>>]

decode_tables_result(t) == [dd |-> t.dd, gate_weights |-> gate_weights_of(t.h)]

\* Returns the engine and gate_weights, a function of the opcode.
decode_tables(dd0) ==
    decode_tables_result(
        decode_calls_from([dd |-> dd0,
                           h |-> ("w0" :> weight_0_handle)
                                    @@ ("w1" :> weight_1_handle)],
                          1))

(***************************************************************************)
(* decode: the expressions that build one level of a gate.  A block        *)
(* [weights, e1] stands for                                                *)
(*   dd.apply(edge(dd.make_node(var_id, identity_children, weights)),      *)
(*            e1, edge_op_kro).                                            *)
(***************************************************************************)
blk(wts, e1) == [weights |-> wts, e1 |-> e1]

\* Variant with the operands of kro exchanged.
kro_block_apply_swapped(n, e1) ==
    IF n.dd.aborted THEN Ret(n.dd, edge(invalid_weight, invalid_node))
    ELSE apply(n.dd, e1, edge_of_node(n.r), edge_op_kro)

kro_block_apply(n, e1) ==
    IF n.dd.aborted THEN Ret(n.dd, edge(invalid_weight, invalid_node))
    ELSE apply(n.dd, edge_of_node(n.r), e1, edge_op_kro)

kro_block(dd, var_id, b) ==
    kro_block_apply(make_node(dd, var_id, identity_children(dd), b.weights),
                    b.e1)

\* dd.apply(A, B, edge_op_add) with A and B blocks already evaluated: first
\* is the edge of the block evaluated first, second the result of the call
\* evaluated second.
add_blocks_apply(arg_order, first, second) ==
    IF second.dd.aborted THEN second
    ELSE
    apply(second.dd,
          IF arg_order = "left_first" THEN first ELSE second.r,
          IF arg_order = "left_first" THEN second.r ELSE first,
          edge_op_add)

\* One assignment "gate = <expression>" of the loop.  blocks lists the
\* blocks of the expression from left to right: one block, or two blocks
\* that are the arguments of dd.apply(A, B, edge_op_add).  C++ leaves the
\* order of evaluation of the two arguments to the compiler (arg_order).
\* first is the result of the block evaluated first.
assign_rest(arg_order, var_id, blocks, first) ==
    IF first.dd.aborted \/ Len(blocks) = 1 THEN first
    ELSE add_blocks_apply(arg_order, first.r,
             kro_block(first.dd, var_id,
                       IF arg_order = "left_first" THEN blocks[2]
                                                   ELSE blocks[1]))

\* No block: the variable keeps its value old.
assign(dd, arg_order, var_id, blocks, old) ==
    IF Len(blocks) = 0 THEN Ret(dd, old)
    ELSE assign_rest(arg_order, var_id, blocks,
             kro_block(dd, var_id,
                       IF Len(blocks) = 2 /\ arg_order = "right_first"
                       THEN blocks[2] ELSE blocks[1]))

\* The loop that builds identitySubtree[var_id] for var_id = num_variables-1 .. 0;
\* s = [dd, root, identitySubtree].
identity_assign(s, var_id, e) ==
    [dd |-> e.dd, root |-> e.r,
     identitySubtree |-> [s.identitySubtree EXCEPT ![var_id] = e.r]]

RECURSIVE decode_identity(_, _)
decode_identity(s, var_id) ==
    IF var_id < 0 \/ s.dd.aborted THEN s
    ELSE decode_identity(
             identity_assign(s, var_id,
                 kro_block(s.dd, var_id, blk(identity_weights, s.root))),
             var_id - 1)

(***************************************************************************)
(* decode: the construction of one single-target gate, variable by         *)
(* variable from num_variables - 1 down to 0; g = [dd, active_gate,        *)
(* inactive_gate].  params is the operand list (1-based), nc the position  *)
(* of next_control_var_id in it (0: before the first operand).             *)
(***************************************************************************)
\* The right-hand side of "active_gate = ..." at var_id.
active_blocks(g, idsub, gate_weights, var_id, is_control, target_var_id) ==
    IF var_id > target_var_id
    THEN <<blk(IF is_control THEN if_true_weights ELSE identity_weights,
               g.active_gate)>>
    ELSE IF var_id = target_var_id
    THEN <<blk(identity_weights, g.inactive_gate),
           blk(gate_weights, g.active_gate)>>
    ELSE IF is_control
    THEN <<blk(if_false_weights, idsub[var_id + 1]),
           blk(if_true_weights, g.active_gate)>>
    ELSE <<blk(identity_weights, g.active_gate)>>

\* Variant without the identity branch of a control below the target.
inactive_blocks_without_identity(g, idsub, var_id, is_control, target_var_id) ==
    IF var_id > target_var_id
    THEN <<blk(IF is_control THEN if_true_weights ELSE identity_weights,
               g.inactive_gate)>>
    ELSE <<>>

\* The right-hand side of "inactive_gate = ..." at var_id, if there is one.
inactive_blocks(g, idsub, var_id, is_control, target_var_id) ==
    IF var_id > target_var_id
    THEN IF is_control
         THEN <<blk(if_false_weights, idsub[var_id + 1]),
                blk(if_true_weights, g.inactive_gate)>>
         ELSE <<blk(identity_weights, g.inactive_gate)>>
    ELSE <<>>

layer_result(active, i) ==
    [dd |-> i.dd, active_gate |-> active, inactive_gate |-> i.r]

\* The assignment of inactive_gate, after that of active_gate returned a.
layer_inactive(g, arg_order, idsub, var_id, is_control, target_var_id, a) ==
    IF a.dd.aborted THEN layer_result(a.r, Ret(a.dd, g.inactive_gate))
    ELSE
    layer_result(a.r,
        assign(a.dd, arg_order, var_id,
               inactive_blocks(g, idsub, var_id, is_control, target_var_id),
               g.inactive_gate))

\* One iteration of the loop over var_id.
gate_layer(g, arg_order, idsub, gate_weights, var_id, is_control, target_var_id) ==
    layer_inactive(g, arg_order, idsub, var_id, is_control, target_var_id,
        assign(g.dd, arg_order, var_id,
               active_blocks(g, idsub, gate_weights, var_id, is_control,
                             target_var_id),
               g.active_gate))

RECURSIVE gate_layers(_, _, _, _, _, _, _, _)
gate_layers(g, arg_order, idsub, gate_weights, params, var_id, nc, target_var_id) ==
    IF var_id < 0 \/ g.dd.aborted THEN g
    ELSE gate_layers(
             gate_layer(g, arg_order, idsub, gate_weights, var_id,
                        nc >= 1 /\ params[nc] = var_id, target_var_id),
             arg_order, idsub, gate_weights, params, var_id - 1,
             IF nc >= 1 /\ params[nc] = var_id THEN nc - 1 ELSE nc,
             target_var_id)

\* The loop of one single-target instruction; active_gate of the result is
\* the gate edge.
build_gate(dd, arg_order, idsub, gate_weights, num_variables, params) ==
    gate_layers([dd |-> dd,
                 active_gate |-> edge(weight_1_handle, get_true(dd)),
                 inactive_gate |-> edge(weight_0_handle, get_true(dd))],
                arg_order, idsub, gate_weights, params, num_variables - 1,
                Len(params) - 1, params[Len(params)])

gate_done(active, m) == [dd |-> m.dd, root |-> m.r, last_gate |-> active]

\* root = dd.apply(active_gate, root, qmdd::edge_op_mul)
mul_into_root(g, root) ==
    IF g.dd.aborted
    THEN gate_done(g.active_gate, Ret(g.dd, edge(invalid_weight, invalid_node)))
    ELSE gate_done(g.active_gate,
                   apply(g.dd, g.active_gate, root, edge_op_mul))

\* Variant whose first and third gate have control swap_a and target swap_b.
fredkin_expand_outer_swapped(params) ==
    LET n == Len(params)
        swap_b_var_id == params[n]
        swap_a_var_id == params[n - 1]
        num_controls == n - 2
    IN  <<toffoli, 2, swap_a_var_id, swap_b_var_id>>
        \o <<toffoli, 2 + num_controls>> \o SubSeq(params, 1, num_controls)
        \o <<swap_a_var_id, swap_b_var_id>>
        \o <<toffoli, 2, swap_a_var_id, swap_b_var_id>>

\* Variant whose second gate lists swap_a before the controls.
fredkin_expand_a_first(params) ==
    LET n == Len(params)
        swap_b_var_id == params[n]
        swap_a_var_id == params[n - 1]
        num_controls == n - 2
    IN  <<toffoli, 2, swap_b_var_id, swap_a_var_id>>
        \o <<toffoli, 2 + num_controls, swap_a_var_id>>
        \o SubSeq(params, 1, num_controls) \o <<swap_b_var_id>>
        \o <<toffoli, 2, swap_b_var_id, swap_a_var_id>>

\* The microcode of a Fredkin instruction with operand list params.
fredkin_expand(params) ==
    LET n == Len(params)
        swap_b_var_id == params[n]
        swap_a_var_id == params[n - 1]
        num_controls == n - 2
    IN  <<toffoli, 2, swap_b_var_id, swap_a_var_id>>
        \o <<toffoli, 2 + num_controls>> \o SubSeq(params, 1, num_controls)
        \o <<swap_a_var_id, swap_b_var_id>>
        \o <<toffoli, 2, swap_b_var_id, swap_a_var_id>>

(***************************************************************************)
(* parse: the reader of circuit files.  The text is taken line by line,    *)
(* each line already cut into its tag or mnemonic, its parameter count and *)
(* its comma-separated items; blank lines and comments are left out.  A    *)
(* parse in progress is ps = [spec, has, state, thrown, pcnt, curr]: the   *)
(* program_spec under construction, the has_*_listing flags, the parser    *)
(* state, the message of the exception thrown ("" while none is), and the  *)
(* locals pcnt and curr_input_var_id of the list callbacks.  Vectors       *)
(* indexed by variable id are sequences indexed by id + 1.                 *)
(***************************************************************************)
program_spec_init ==
    [num_variables |-> 0, variable_names |-> <<>>,
     variable_input_list_index |-> <<>>, variable_output_list_index |-> <<>>,
     variable_constant_input |-> <<>>, variable_name_to_id |-> <<>>,
     num_inputs |-> 0, input_variable_ids |-> <<>>,
     num_outputs |-> 0, output_variable_ids |-> <<>>,
     gate_stream |-> <<>>]

parse_spec_init ==
    [spec |-> program_spec_init,
     has |-> [variable_listing |-> FALSE, input_variable_listing |-> FALSE,
              output_variable_listing |-> FALSE,
              constant_input_listing |-> FALSE],
     state |-> "reading_tags", thrown |-> "", pcnt |-> 0, curr |-> 0]

\* throw std::runtime_error(what)
throw(ps, what) == [ps EXCEPT !.thrown = what]

\* The callback of the list of .v
v_callback(ps, name) ==
    IF name \in DOMAIN ps.spec.variable_name_to_id
    THEN throw(ps, "duplicate variable name")
    ELSE [ps EXCEPT
             !.spec.variable_name_to_id = (name :> ps.spec.num_variables) @@ @,
             !.spec.variable_names = Append(@, name),
             !.spec.num_variables = @ + 1]

\* The callback of the list of .i
i_callback(ps, name) ==
    IF name \notin DOMAIN ps.spec.variable_name_to_id
    THEN throw(ps, "undeclared input")
    ELSE IF ps.spec.variable_input_list_index[
                ps.spec.variable_name_to_id[name] + 1] # -1
    THEN throw(ps, "duplicate input")
    ELSE [ps EXCEPT
             !.spec.variable_input_list_index[
                 ps.spec.variable_name_to_id[name] + 1] = ps.spec.num_inputs,
             !.spec.input_variable_ids =
                 Append(@, ps.spec.variable_name_to_id[name]),
             !.spec.num_inputs = @ + 1]

\* The callback of the list of .o
o_callback(ps, name) ==
    IF name \notin DOMAIN ps.spec.variable_name_to_id
    THEN throw(ps, "undeclared output")
    ELSE IF ps.spec.variable_output_list_index[
                ps.spec.variable_name_to_id[name] + 1] # -1
    THEN throw(ps, "duplicate output")
    ELSE [ps EXCEPT
             !.spec.variable_output_list_index[
                 ps.spec.variable_name_to_id[name] + 1] = ps.spec.num_outputs,
             !.spec.output_variable_ids =
                 Append(@, ps.spec.variable_name_to_id[name]),
             !.spec.num_outputs = @ + 1]

\* for (;;) { if (curr >= num_variables || index[curr] == -1) break; curr += 1; }
RECURSIVE skip_inputs(_, _)
skip_inputs(sp, curr) ==
    IF curr >= sp.num_variables \/ sp.variable_input_list_index[curr + 1] = -1
    THEN curr
    ELSE skip_inputs(sp, curr + 1)

\* The callback of the list of .c, cval the number read
c_callback(ps, cval) ==
    IF skip_inputs(ps.spec, ps.curr) >= ps.spec.num_variables
    THEN throw(ps, "more constants than missing inputs")
    ELSE [ps EXCEPT
             !.spec.variable_constant_input[skip_inputs(ps.spec, ps.curr) + 1]
                 = cval,
             !.curr = skip_inputs(ps.spec, ps.curr) + 1]

\* The callback of the operand list of a gate line
param_callback(ps, name) ==
    IF ps.pcnt = 0
    THEN throw(ps, "too many parameters")
    ELSE IF name \notin DOMAIN ps.spec.variable_name_to_id
    THEN throw(ps, "undeclared variable")
    ELSE [ps EXCEPT
             !.spec.gate_stream = Append(@, ps.spec.variable_name_to_id[name]),
             !.pcnt = @ - 1]

callback(ps, tag, item) ==
    CASE tag = ".v" -> v_callback(ps, item)
      [] tag = ".i" -> i_callback(ps, item)
      [] tag = ".o" -> o_callback(ps, item)
      [] tag = ".c" -> c_callback(ps, item)
      [] OTHER -> param_callback(ps, item)

\* accept_list: the callback on each item in turn, up to the first throw.
RECURSIVE accept_list(_, _, _)
accept_list(ps, tag, items) ==
    IF items = <<>> \/ ps.thrown # "" THEN ps
    ELSE accept_list(callback(ps, tag, Head(items)), tag, Tail(items))

\* resize(num_variables, -1) of the three vectors after the list of .v
v_resize(ps) ==
    IF ps.thrown # "" THEN ps
    ELSE [ps EXCEPT
             !.spec.variable_input_list_index =
                 [k \in 1 .. ps.spec.num_variables |-> -1],
             !.spec.variable_output_list_index =
                 [k \in 1 .. ps.spec.num_variables |-> -1],
             !.spec.variable_constant_input =
                 [k \in 1 .. ps.spec.num_variables |-> -1]]

\* if (curr_input_var_id < spec.num_variables) throw ...
c_enough(ps) ==
    IF ps.thrown = "" /\ ps.curr < ps.spec.num_variables
    THEN throw(ps, "not enough constants for non-input variables")
    ELSE ps

\* A line in the state reading_tags.
reading_tags(ps, l) ==
    CASE l.tag = "BEGIN" ->
           IF ~ps.has.variable_listing
           THEN throw(ps, "missing variable listing (.v)")
           ELSE IF ~ps.has.input_variable_listing
           THEN throw(ps, "missing input variable listing (.i)")
           ELSE IF ~ps.has.output_variable_listing
           THEN throw(ps, "missing output variable listing (.o)")
           ELSE IF ~ps.has.constant_input_listing
                   /\ ps.spec.num_inputs # ps.spec.num_variables
           THEN throw(ps, "missing constant input variable listing (.c)")
           ELSE [ps EXCEPT !.state = "reading_gate_list"]
      [] l.tag = ".v" ->
           IF ps.has.variable_listing
           THEN throw(ps, "duplicate variable listing (.v)")
           ELSE v_resize(accept_list(
                    [ps EXCEPT !.has.variable_listing = TRUE], ".v", l.list))
      [] l.tag = ".i" ->
           IF ~ps.has.variable_listing
           THEN throw(ps, "missing variable listing (.v)")
           ELSE IF ps.has.input_variable_listing
           THEN throw(ps, "duplicate input variable listing (.i)")
           ELSE accept_list([ps EXCEPT !.has.input_variable_listing = TRUE],
                            ".i", l.list)
      [] l.tag = ".o" ->
           IF ~ps.has.variable_listing
           THEN throw(ps, "missing variable listing (.v)")
           ELSE IF ps.has.output_variable_listing
           THEN throw(ps, "duplicate output variable listing (.o)")
           ELSE accept_list([ps EXCEPT !.has.output_variable_listing = TRUE],
                            ".o", l.list)
      [] l.tag = ".c" ->
           IF ~ps.has.variable_listing
           THEN throw(ps, "missing variable listing (.v)")
           ELSE IF ~ps.has.input_variable_listing
           THEN throw(ps, "missing input variable listing (.i)")
           ELSE IF ps.has.constant_input_listing
           THEN throw(ps, "duplicate constant input variable listing (.c)")
           ELSE c_enough(accept_list(
                    [ps EXCEPT !.has.constant_input_listing = TRUE,
                               !.curr = skip_inputs(ps.spec, 0)],
                    ".c", l.list))
      [] OTHER -> throw(ps, "expected tag or BEGIN")

\* The loop over the operands but the last: "parameters must be in
\* variable order", first_param_i the size of gate_stream before the list.
order_check(ps, first_param_i) ==
    IF ps.thrown = ""
       /\ \E k \in (first_param_i + 1) .. (Len(ps.spec.gate_stream) - 2) :
             ps.spec.gate_stream[k] >= ps.spec.gate_stream[k + 1]
    THEN throw(ps, "parameters must be in variable order")
    ELSE ps

\* std::toupper of the first character of a gate line
toupper(c) ==
    CASE c = "t" -> "T" [] c = "f" -> "F" [] c = "y" -> "Y" [] c = "z" -> "Z"
      [] c = "v" -> "V" [] c = "h" -> "H" [] c = "q" -> "Q" [] OTHER -> c

\* The opcode pushed for the mnemonic of a single-target gate.
single_target_opcode(l) ==
    CASE toupper(l.letter) = "T" -> toffoli
      [] toupper(l.letter) = "Y" -> pauli_y
      [] toupper(l.letter) = "Z" -> pauli_z
      [] toupper(l.letter) = "V" -> IF l.quote THEN inv_sqrtnot ELSE sqrtnot
      [] toupper(l.letter) = "H" -> hadamard
      [] toupper(l.letter) = "Q" -> IF l.quote THEN inv_rotate_pi_by_4
                                    ELSE rotate_pi_by_4

\* A gate line after its mnemonic: accept_paramcount, the pushes of the
\* opcode, the count and the operands, and the order check.
gate_line(ps, l, opcode, min_pcnt, what) ==
    IF l.pcnt = 0 \/ (l.quote /\ toupper(l.letter) \notin {"V", "Q"})
    THEN throw(ps, "expected parameter count")
    ELSE IF l.pcnt < min_pcnt
    THEN throw(ps, what)
    ELSE order_check(
             accept_list([ps EXCEPT !.spec.gate_stream = @ \o <<opcode, l.pcnt>>,
                                    !.pcnt = l.pcnt],
                         "gate", l.list),
             Len(ps.spec.gate_stream) + 2)

\* A line in the state reading_gate_list.
reading_gate_list(ps, l) ==
    IF l.tag = "END" THEN [ps EXCEPT !.state = "end"]
    ELSE IF l.tag = "gate"
            /\ toupper(l.letter) \in {"T", "Y", "Z", "V", "H", "Q"}
    THEN gate_line(ps, l, single_target_opcode(l), 1,
                   "gate needs at least 1 input")
    ELSE IF l.tag = "gate" /\ toupper(l.letter) = "F"
    THEN gate_line(ps, l, fredkin, 2, "gate needs at least 2 inputs")
    ELSE throw(ps, "expected gate or END")

\* The body of the loop of parse_spec for one line that is neither blank
\* nor a comment.
parse_line(ps, l) ==
    IF ps.state = "reading_tags" THEN reading_tags(ps, l)
    ELSE reading_gate_list(ps, l)

(***************************************************************************)
(* The inputs of decode: gate streams as the parser emits them for         *)
(* well-formed gate lines (opcode, operand count, operand variable ids;    *)
(* controls ascending, the target or second swap target last).             *)
(***************************************************************************)
RECURSIVE SortedSeq(_)
SortedSeq(S) ==
    IF S = {} THEN <<>>
    ELSE LET m == CHOOSE a \in S : \A b \in S : a <= b
         IN  <<m>> \o SortedSeq(S \ {m})

SingleTargetOpcodes == {toffoli, pauli_y, pauli_z, sqrtnot, inv_sqrtnot,
                        hadamard, rotate_pi_by_4, inv_rotate_pi_by_4}

SingleTargetInstrs(N, ops) ==
    {<<op, Cardinality(C) + 1>> \o SortedSeq(C) \o <<t>> :
        op \in ops, <<t, C>> \in {tc \in (0 .. N - 1) \X SUBSET (0 .. N - 1) :
                                     tc[1] \notin tc[2]}}

FredkinInstrs(N) ==
    {<<fredkin, Cardinality(S) + 1>> \o SortedSeq(S) \o <<b>> :
        <<b, S>> \in {bs \in (0 .. N - 1) \X (SUBSET (0 .. N - 1) \ {{}}) :
                         bs[1] \notin bs[2]}}

Instrs(N, ops) ==
    SingleTargetInstrs(N, ops \cap SingleTargetOpcodes)
        \cup (IF fredkin \in ops THEN FredkinInstrs(N) ELSE {})

RECURSIVE Streams(_, _, _)
Streams(N, ops, len) ==
    IF len = 0 THEN {<<>>}
    ELSE LET shorter == Streams(N, ops, len - 1)
         IN  shorter \cup {s \o g : s \in shorter, g \in Instrs(N, ops)}

AllOpcodes == SingleTargetOpcodes \cup {fredkin}

(***************************************************************************)
(* The state of decode.                                                    *)
(***************************************************************************)
VARIABLES
    spec,               \* program_spec: num_variables, gate_stream
    arg_order,          \* the build's order of evaluation of call arguments
    dd,                 \* the engine
    gate_weights,       \* the weight tables of the gates, by opcode
    root,               \* the accumulator
    identitySubtree,    \* identitySubtree[0 .. num_variables]
    gate_streams,       \* the stack of gate_stream_view, top last
    fredkin_microcode,  \* storage for microcode
    last_gate,          \* history: the gate edge multiplied in last
    executed,           \* history: the instructions multiplied in, in order
    parser              \* parse_spec: its flags, state and exception

vars == <<spec, arg_order, dd, gate_weights, root, identitySubtree,
          gate_streams, fredkin_microcode, last_gate, executed, parser>>

\* parse_spec after it has returned the program_spec.
parse_returned ==
    [has |-> [variable_listing |-> TRUE, input_variable_listing |-> TRUE,
              output_variable_listing |-> TRUE,
              constant_input_listing |-> TRUE],
     state |-> "end", thrown |-> "", returned |-> TRUE]

\* decode up to the first test of the while loop.
\* decode from its first statement to the gate loop, on the engine given.
decode_from(engine, N, stream, order) ==
    \E t \in {decode_tables(engine)} :
    \E id \in {decode_identity(
                  [dd |-> t.dd,
                   root |-> edge(weight_1_handle, get_true(t.dd)),
                   identitySubtree |->
                       [k \in 0 .. N |-> edge(weight_1_handle, get_true(t.dd))]],
                  N - 1)} :
        /\ spec = [num_variables |-> N, gate_stream |-> stream]
        /\ arg_order = order
        /\ dd = id.dd
        /\ gate_weights = t.gate_weights
        /\ root = id.root
        /\ identitySubtree = id.identitySubtree
        /\ gate_streams = <<[stream |-> "gate_stream", size |-> Len(stream),
                             offset |-> 0]>>
        /\ fredkin_microcode = <<>>
        /\ last_gate = edge(invalid_weight, invalid_node)
        /\ executed = <<>>
        /\ parser = parse_returned

decode_init(N, stream, order) == decode_from(qmdd_init(N), N, stream, order)

ArgOrders == {"left_first", "right_first"}

Init ==
    \E N \in 1 .. MaxVars, order \in ArgOrders :
        \E stream \in Streams(N, AllOpcodes, MaxGates) :
            decode_init(N, stream, order)

\* Circuits of Toffoli and Fredkin gates only.
InitRev ==
    \E N \in 1 .. MaxRevVars, order \in ArgOrders :
        \E stream \in Streams(N, {toffoli, fredkin}, MaxRevGates) :
            decode_init(N, stream, order)

\* Circuits of Hadamard and Fredkin gates over MaxVars variables, whose
\* products have blocks of four equal quadrants.
InitHF ==
    \E order \in ArgOrders :
        \E stream \in Streams(MaxVars, {hadamard, fredkin}, MaxHFGates) :
            decode_init(MaxVars, stream, order)

\* One-gate circuits of every opcode over MaxRevVars variables.
InitWide ==
    \E order \in ArgOrders :
        \E stream \in Streams(MaxRevVars, AllOpcodes, MaxGates) :
            decode_init(MaxRevVars, stream, order)

\* The opcode compiled after op in the two-gate circuits of InitSeq: the
\* inverse rotation after a rotation, the same opcode otherwise.
second_opcode(op) ==
    IF op = rotate_pi_by_4 THEN inv_rotate_pi_by_4 ELSE op

SeqOpcodes == {toffoli, pauli_y, pauli_z, sqrtnot, hadamard, rotate_pi_by_4}

\* Circuits of one gate followed by the gate of second_opcode with the same
\* operands, and circuits of one Fredkin gate, over 1 .. MaxRevVars variables.
InitSeq ==
    \E N \in 1 .. MaxRevVars, order \in ArgOrders :
        \E stream \in {g \o <<second_opcode(g[1])>> \o Tail(g) :
                           g \in SingleTargetInstrs(N, SeqOpcodes)}
                        \cup FredkinInstrs(N) :
            decode_init(N, stream, order)

\* Every instruction the parser lets through: all operands but the last
\* strictly increasing, the last any variable (also one of the others), a
\* Fredkin gate with two operands at least.
ParsedInstrs(N) ==
    {<<g.op, Cardinality(g.C) + 1>> \o SortedSeq(g.C) \o <<g.t>> :
        g \in {h \in [op : AllOpcodes, t : 0 .. N - 1, C : SUBSET (0 .. N - 1)] :
                  h.op = fredkin => h.C # {}}}

RECURSIVE ParsedStreams(_, _)
ParsedStreams(N, len) ==
    IF len = 0 THEN {<<>>}
    ELSE LET shorter == ParsedStreams(N, len - 1)
         IN  shorter \cup {s \o g : s \in shorter, g \in ParsedInstrs(N)}

\* Circuits of up to MaxGates gates of any instruction the parser lets
\* through, over 1 .. MaxRevVars variables.
InitParsed ==
    \E N \in 1 .. MaxRevVars, order \in ArgOrders :
        \E stream \in ParsedStreams(N, MaxGates) :
            decode_init(N, stream, order)

\* Circuits of up to MaxHFGates gates over two variables, each a Hadamard
\* gate on the first, a Toffoli gate from the first onto the second or a
\* Fredkin gate on both.
OrderInstrs == {<<hadamard, 1, 0>>, <<toffoli, 2, 0, 1>>, <<fredkin, 2, 0, 1>>}

RECURSIVE OrderStreams(_)
OrderStreams(len) ==
    IF len = 0 THEN {<<>>}
    ELSE LET shorter == OrderStreams(len - 1)
         IN  shorter \cup {s \o g : s \in shorter, g \in OrderInstrs}

InitOrder ==
    \E order \in ArgOrders :
        \E stream \in OrderStreams(MaxHFGates) :
            decode_init(2, stream, order)

\* The circuits of Init on an engine whose node pool and unique table have
\* 2^b entries, b in 1 .. PoolBits, in place of 2^20.
InitPool ==
    \E b \in 1 .. PoolBits, N \in 1 .. MaxVars, order \in ArgOrders :
        \E stream \in Streams(N, AllOpcodes, MaxGates) :
            decode_from([qmdd_init(N) EXCEPT !.capacity = 2 ^ b],
                        N, stream, order)

curr_stream == gate_streams[Len(gate_streams)]

\* Variant that reads the microcode with its first two gates exchanged.
stream_data_exchanged(view) ==
    IF view.stream = "gate_stream" THEN spec.gate_stream
    ELSE SubSeq(fredkin_microcode, 5, Len(fredkin_microcode) - 4)
             \o SubSeq(fredkin_microcode, 1, 4)
             \o SubSeq(fredkin_microcode, Len(fredkin_microcode) - 3,
                       Len(fredkin_microcode))

\* The vector a view points into.
stream_data(view) ==
    IF view.stream = "gate_stream" THEN spec.gate_stream ELSE fredkin_microcode

cur_opcode == stream_data(curr_stream)[curr_stream.offset + 1]

cur_param_count == stream_data(curr_stream)[curr_stream.offset + 2]

cur_params ==
    SubSeq(stream_data(curr_stream), curr_stream.offset + 3,
           curr_stream.offset + 2 + cur_param_count)

\* curr_stream().offset after the instruction at the cursor is decoded.
advanced ==
    [gate_streams EXCEPT ![Len(gate_streams)].offset = @ + 2 + cur_param_count]

\* if (curr_stream().offset == curr_stream().size) { pop_back(); continue; }
PopStream ==
    /\ gate_streams # <<>>
    /\ ~dd.aborted
    /\ curr_stream.offset = curr_stream.size
    /\ gate_streams' = SubSeq(gate_streams, 1, Len(gate_streams) - 1)
    /\ UNCHANGED <<spec, arg_order, dd, gate_weights, root, identitySubtree,
                   fredkin_microcode, last_gate, executed, parser>>

\* The case of the eight single-target opcodes.
SingleTargetGate ==
    /\ gate_streams # <<>>
    /\ curr_stream.offset # curr_stream.size
    /\ cur_opcode \in SingleTargetOpcodes
    /\ ~dd.aborted
    /\ \E s \in {mul_into_root(
                    build_gate(dd, arg_order, identitySubtree,
                               gate_weights[cur_opcode], spec.num_variables,
                               cur_params),
                    root)} :
          /\ dd' = s.dd
          /\ root' = s.root
          /\ last_gate' = s.last_gate
    /\ gate_streams' = advanced
    /\ executed' = Append(executed, [op |-> cur_opcode, params |-> cur_params])
    /\ UNCHANGED <<spec, arg_order, gate_weights, identitySubtree,
                   fredkin_microcode, parser>>

\* case gate_opcode::fredkin
FredkinGate ==
    /\ gate_streams # <<>>
    /\ curr_stream.offset # curr_stream.size
    /\ cur_opcode = fredkin
    /\ ~dd.aborted
    /\ fredkin_microcode' = fredkin_expand(cur_params)
    /\ gate_streams' = Append(advanced,
                              [stream |-> "fredkin_microcode",
                               size |-> Len(fredkin_expand(cur_params)),
                               offset |-> 0])
    /\ UNCHANGED <<spec, arg_order, dd, gate_weights, root, identitySubtree,
                   last_gate, executed, parser>>

Next == PopStream \/ SingleTargetGate \/ FredkinGate

(***************************************************************************)
(* parse_spec line by line.  The text is the input: each step reads one   *)
(* more line of it, or finds its end.                                      *)
(***************************************************************************)
Names == {"a", "b"}

RECURSIVE Lists(_, _)
Lists(S, len) ==
    IF len = 0 THEN {<<>>}
    ELSE LET shorter == Lists(S, len - 1)
         IN  shorter \cup {Append(l, e) : l \in shorter, e \in S}

GateLetters == {"t", "T", "f", "y", "z", "v", "h", "q", "x"}

line(tag, letter, quote, pcnt, list) ==
    [tag |-> tag, letter |-> letter, quote |-> quote, pcnt |-> pcnt,
     list |-> list]

no_line == line("", "", FALSE, 0, <<>>)

\* parse_spec before its loop, decode not yet called.
InitParse ==
    /\ spec = program_spec_init
    /\ parser = [has |-> parse_spec_init.has, state |-> parse_spec_init.state,
                 thrown |-> "", returned |-> FALSE,
                 line |-> no_line, nlines |-> 0, ngates |-> 0]
    /\ arg_order = "left_first"
    /\ dd = <<>>
    /\ gate_weights = <<>>
    /\ root = edge(invalid_weight, invalid_node)
    /\ identitySubtree = <<>>
    /\ gate_streams = <<>>
    /\ fredkin_microcode = <<>>
    /\ last_gate = edge(invalid_weight, invalid_node)
    /\ executed = <<>>

\* One iteration of the loop over the lines, on the line made of tag,
\* letter, quote, pcnt and list.
ReadLine(tag, letter, quote, pcnt, list) ==
    /\ ~parser.returned
    /\ parser.thrown = ""
    /\ parser.state # "end"
    /\ parser.nlines < MaxLines
    /\ \E l \in {line(tag, letter, quote, pcnt, list)} :
       \E ps \in {parse_line([parse_spec_init EXCEPT !.spec = spec,
                                                     !.has = parser.has,
                                                     !.state = parser.state],
                              l)} :
          /\ spec' = ps.spec
          /\ parser' = [has |-> ps.has, state |-> ps.state,
                        thrown |-> ps.thrown, returned |-> FALSE,
                        line |-> l, nlines |-> parser.nlines + 1,
                        ngates |-> parser.ngates
                                      + (IF tag = "gate" THEN 1 ELSE 0)]
    /\ UNCHANGED <<arg_order, dd, gate_weights, root, identitySubtree,
                   gate_streams, fredkin_microcode, last_gate, executed>>

\* A line .v, .i or .o with a list of names.
ReadNames ==
    \E tag \in {".v", ".i", ".o"}, names \in Lists(Names, MaxItems) :
        ReadLine(tag, "", FALSE, 0, names)

\* A line .c with a list of numbers.
ReadConstants ==
    \E values \in Lists({0, 1}, MaxItems) :
        ReadLine(".c", "", FALSE, 0, values)

\* A line BEGIN or END.
ReadKeyword ==
    \E tag \in {"BEGIN", "END"} : ReadLine(tag, "", FALSE, 0, <<>>)

\* A line that starts with a letter, an optional quote and a number.
ReadGate ==
    /\ parser.ngates < MaxParseGates
    /\ \E letter \in GateLetters, quote \in BOOLEAN, pcnt \in 0 .. MaxPcnt,
          names \in Lists(Names, MaxItems) :
          ReadLine("gate", letter, quote, pcnt, names)

\* The loop ends, at the end of the text or in the state end, and
\* parse_spec returns spec.
Return ==
    /\ ~parser.returned
    /\ parser.thrown = ""
    /\ parser' = [parser EXCEPT !.returned = TRUE]
    /\ UNCHANGED <<spec, arg_order, dd, gate_weights, root, identitySubtree,
                   gate_streams, fredkin_microcode, last_gate, executed>>

NextParse == ReadNames \/ ReadConstants \/ ReadKeyword \/ ReadGate \/ Return

SpecParse == InitParse /\ [][NextParse]_vars

Spec == Init /\ [][Next]_vars

SpecRev == InitRev /\ [][Next]_vars

SpecHF == InitHF /\ [][Next]_vars

SpecWide == InitWide /\ [][Next]_vars

SpecSeq == InitSeq /\ [][Next]_vars

SpecParsed == InitParsed /\ [][Next]_vars

SpecPool == InitPool /\ [][Next]_vars

\* What one iteration of the while loop does to the stack of streams.
Iteration ==
    /\ gate_streams # <<>>
    /\ ~dd.aborted
    /\ gate_streams' =
          IF curr_stream.offset = curr_stream.size
          THEN SubSeq(gate_streams, 1, Len(gate_streams) - 1)
          ELSE IF cur_opcode = fredkin
          THEN Append(advanced,
                      [stream |-> "fredkin_microcode",
                       size |-> Len(fredkin_expand(cur_params)),
                       offset |-> 0])
          ELSE advanced

\* The loop of decode running on: while the stack is not empty, the next
\* iteration is taken.
SpecOrder == InitOrder /\ [][Next]_vars /\ WF_gate_streams(Iteration)

(***************************************************************************)
(* Notions shared by the properties.                                       *)
(***************************************************************************)
Handles == 0 .. (Len(dd.node_pool) - 1)

NonTerminals == Handles \ {get_true(dd)}

AllEqual(n) ==
    \A i \in 1 .. (p * p - 1) :
        n.children[i] = n.children[i + 1] /\ n.weights[i] = n.weights[i + 1]

FirstNonZero(weights) ==
    LET nz == {i \in 1 .. p * p : weights[i] # weight_0_handle}
    IN  CHOOSE k \in nz : \A m \in nz : k <= m

Normalized(weights) ==
    (\E i \in 1 .. p * p : weights[i] # weight_0_handle)
        => weights[FirstNonZero(weights)] = weight_1_handle

SomeGateDone == last_gate.v # invalid_node

(***************************************************************************)
(* C1. Unique table: no two distinct handles of the node pool hold the     *)
(* same (var, children, weights) tuple, and make_node called with the      *)
(* tuple of an existing node returns that node's handle and changes        *)
(* neither the pool nor the table.                                         *)
(***************************************************************************)
C1_UniqueTable ==
    /\ \A g, h \in Handles :
          dd.node_pool[g + 1] = dd.node_pool[h + 1] => g = h
    /\ \A h \in NonTerminals :
          LET n == dd.node_pool[h + 1]
              m == make_node(dd, n.var, n.children, n.weights)
          IN  /\ m.r = h
              /\ m.dd.node_pool = dd.node_pool
              /\ m.dd.table = dd.table

\* A gate was compiled and some node sits in a slot other than its hash
\* slot: a collision was resolved by probing.
C1_Witness ==
    /\ SomeGateDone
    /\ \E key \in DOMAIN dd.table :
          LET n == dd.node_pool[dd.table[key] + 1]
          IN  unique_table_hash(dd, n.var, n.children, n.weights) # key

(***************************************************************************)
(* C2. Normalization (I3): in every make_node call of the run, the         *)
(* compiler's calls for the building blocks included, the first weight     *)
(* that is not W0 is W1.                                                   *)
(***************************************************************************)
C2_AllCallsNormalized == \A c \in dd.made : Normalized(c.weights)

(***************************************************************************)
(* C3. No-redundancy (I2).  As claimed: no node of the pool, the terminal  *)
(* included, has four equal children and four equal weights.               *)
(***************************************************************************)
C3_NoRedundancyWithTerminal ==
    \A h \in Handles : ~AllEqual(dd.node_pool[h + 1])

\* C3 as amended: no node other than the terminal has four equal children
\* and four equal weights.
C3_NoRedundancy ==
    \A h \in NonTerminals : ~AllEqual(dd.node_pool[h + 1])

\* make_node was called with four equal children and four equal weights.
C3_Witness ==
    /\ SomeGateDone
    /\ \E c \in dd.made : AllEqual(c)

(***************************************************************************)
(* C4. Variable ordering and terminal reach (I1): every node other than    *)
(* the terminal has a variable below num_vars and each of its children has *)
(* a strictly greater variable (the terminal's is num_vars); the terminal  *)
(* is the only node of variable num_vars.                                  *)
(***************************************************************************)
C4_VariableOrdering ==
    /\ dd.node_pool[get_true(dd) + 1].var = dd.num_vars
    /\ \A h \in NonTerminals :
          LET n == dd.node_pool[h + 1]
          IN  /\ n.var \in 0 .. (dd.num_vars - 1)
              /\ \A i \in 1 .. p * p :
                    /\ n.children[i] \in Handles
                    /\ get_var(dd, n.children[i]) > n.var

\* The accumulator is a product computed by mul whose root has a child
\* that is not the terminal.
C4_Witness ==
    /\ SomeGateDone
    /\ root.v \in NonTerminals
    /\ \E i \in Slots : get_child(dd, root.v, i) # get_true(dd)

(***************************************************************************)
(* Notions of the properties of the weights and of the operations.        *)
(***************************************************************************)
Range(f) == {f[k] : k \in DOMAIN f}

zero_edge == edge(weight_0_handle, get_true(dd))

\* The edges the engine has produced so far: the results of apply, the
\* accumulator and the identity diagrams.
EngineEdges == dd.returned \cup {root} \cup Range(identitySubtree)

\* Equality of the values denoted, by cross-multiplication.
rational_value_eq(a, b) == a.num * b.den = b.num * a.den

irrational_value_eq(a, b) ==
    /\ rational_value_eq(a.intpart, b.intpart)
    /\ rational_value_eq(a.sqrt2part, b.sqrt2part)

weight_value_eq(a, b) ==
    /\ irrational_value_eq(a.real, b.real)
    /\ irrational_value_eq(a.imag, b.imag)

\* The weights of the interner and some weights computed from them.
WeightSamples ==
    Range(dd.weights)
        \cup {weight_add[a, weight_one] : a \in Range(dd.weights)}
        \cup {weight_mul(a, weight_i) : a \in Range(dd.weights)}

(***************************************************************************)
(* C5. Weight interner: handle 0 denotes weight 0 and handle 1 weight 1;   *)
(* the interned weights are pairwise different; for weights x and y,       *)
(* insert(x) = insert(y) iff x = y (as values: iff they denote the same    *)
(* number), get(insert(x)) = x also after a later insert, and no insert    *)
(* and no step of the program changes the weight of a handle handed out.   *)
(***************************************************************************)
C5_InternerState ==
    /\ get_weight_value(dd, weight_0_handle) = weight_zero
    /\ get_weight_value(dd, weight_1_handle) = weight_one
    /\ \A g, h \in 1 .. Len(dd.weights) :
          weight_value_eq(dd.weights[g], dd.weights[h]) => g = h
    /\ \A a, b \in WeightSamples :
          LET ia == unique_weights_insert(dd, a)
              ib == unique_weights_insert(ia.dd, b)
          IN  /\ (ia.r = ib.r) <=> (a = b)
              /\ (a = b) <=> weight_value_eq(a, b)
              /\ get_weight_value(ia.dd, ia.r) = a
              /\ get_weight_value(ib.dd, ia.r) = a
              /\ get_weight_value(ib.dd, ib.r) = b
              /\ SubSeq(ib.dd.weights, 1, Len(dd.weights)) = dd.weights

C5_HandlesStable ==
    /\ Len(dd.weights') >= Len(dd.weights)
    /\ SubSeq(dd.weights', 1, Len(dd.weights)) = dd.weights

C5_WeightInterner == [](C5_InternerState) /\ [][C5_HandlesStable]_vars

\* A gate was compiled, and two different weight operations of the run gave
\* one and the same handle other than 0 and 1: the second insert found the
\* weight of the first.
C5_Witness ==
    /\ SomeGateDone
    /\ \E j, k \in DOMAIN dd.computedwt :
          /\ j # k
          /\ dd.computedwt[j].result = dd.computedwt[k].result
          /\ dd.computedwt[j].result \notin {weight_0_handle, weight_1_handle}

(***************************************************************************)
(* C6. Cache transparency: in every state of the run, for the edges of the *)
(* run and every op, apply returns the same edge with the caches as they   *)
(* are and with both caches empty, and, with the accumulator as second     *)
(* operand, also with both caches always missing; and each gate step of    *)
(* the compiler leaves in root the edge that the same step computes with   *)
(* both caches always missing.                                             *)
(***************************************************************************)
no_memo(d) == [d EXCEPT !.memo = FALSE]

cleared(d) == [d EXCEPT !.computedtb = <<>>, !.computedwt = <<>>]

\* The probes: e0 is an operand of the compiler's products, e1 one of them
\* or an identity diagram (over all variables, over none).
C6_Left == {root} \cup (IF SomeGateDone THEN {last_gate} ELSE {})

C6_Right == C6_Left \cup {identitySubtree[0], identitySubtree[spec.num_variables]}

C6_Ops == {edge_op_add, edge_op_mul, edge_op_kro}

C6_SameResult ==
    \A e0 \in C6_Left, e1 \in C6_Right, op \in C6_Ops :
        LET res == apply(dd, e0, e1, op).r
        IN  /\ res = apply(cleared(dd), e0, e1, op).r
            /\ e1 = root => res = apply(no_memo(dd), e0, e1, op).r

C6_GateStep ==
    (/\ gate_streams # <<>>
     /\ curr_stream.offset # curr_stream.size
     /\ cur_opcode \in SingleTargetOpcodes)
        => root' = mul_into_root(
                       build_gate(no_memo(dd), arg_order, identitySubtree,
                                  gate_weights[cur_opcode], spec.num_variables,
                                  cur_params),
                       root).root

C6_CacheTransparency == [](C6_SameResult) /\ [][C6_GateStep]_vars

\* A gate was compiled; one lookup of the edges above hits the edge cache,
\* and another finds its slot taken by a different key, so that its insert
\* evicts an entry.
C6_Witness ==
    /\ SomeGateDone
    /\ \E e0 \in C6_Left, e1 \in C6_Right, op \in C6_Ops :
          computed_table_find(dd, e0, e1, op).v # invalid_node
    /\ \E e0 \in C6_Left, e1 \in C6_Right, op \in C6_Ops :
          /\ computed_table_hash(e0, e1, op) \in DOMAIN dd.computedtb
          /\ computed_table_find(dd, e0, e1, op).v = invalid_node

\* The instructions of view.stream from its start up to the cursor position
\* upto, as records of opcode and parameters.
RECURSIVE InstrsUpTo(_, _, _)
InstrsUpTo(data, i, upto) ==
    IF i >= upto THEN <<>>
    ELSE <<[op |-> data[i + 1],
            params |-> SubSeq(data, i + 3, i + 2 + data[i + 2])]>>
             \o InstrsUpTo(data, i + 2 + data[i + 2], upto)

\* The gates whose effect is in the accumulator: those of the input up to
\* its cursor and, while a Fredkin gate is being expanded, the expanded
\* gates up to their cursor in place of that Fredkin gate.
GatesDone ==
    LET main == IF gate_streams = <<>>
                THEN InstrsUpTo(spec.gate_stream, 0, Len(spec.gate_stream))
                ELSE InstrsUpTo(spec.gate_stream, 0, gate_streams[1].offset)
    IN  IF Len(gate_streams) = 2
        THEN SubSeq(main, 1, Len(main) - 1)
                 \o InstrsUpTo(fredkin_microcode, 0, gate_streams[2].offset)
        ELSE main

BitVectors == [0 .. (spec.num_variables - 1) -> 0 .. (p - 1)]

ControlsOn(C, b) == \A k \in 1 .. Len(C) : b[C[k]] = 1

\* Reference Toffoli: flips the target when every control is 1.
ToffoliRef(params, b) ==
    LET n == Len(params)
    IN  IF ControlsOn(SubSeq(params, 1, n - 1), b)
        THEN [b EXCEPT ![params[n]] = 1 - @]
        ELSE b

\* Reference Fredkin: exchanges the two swap targets when every control is 1.
FredkinRef(params, b) ==
    LET n == Len(params)
    IN  IF ControlsOn(SubSeq(params, 1, n - 2), b)
        THEN [b EXCEPT ![params[n - 1]] = b[params[n]],
                       ![params[n]] = b[params[n - 1]]]
        ELSE b

\* The column-to-row map of the product of the reference matrices of gs,
\* later gates on the left.
RECURSIVE CircuitRef(_, _)
CircuitRef(gs, b) ==
    IF gs = <<>> THEN b
    ELSE CircuitRef(Tail(gs),
                    IF Head(gs).op = fredkin
                    THEN FredkinRef(Head(gs).params, b)
                    ELSE ToffoliRef(Head(gs).params, b))

\* Multiplication of weight values, with 0 * x = 0 and 1 * x = x taken
\* directly.
Times(a, b) ==
    IF a = weight_zero THEN weight_zero
    ELSE IF a = weight_one THEN b
    ELSE weight_mul(a, b)

\* The product of the slot weights along the path chosen by the bits of row
\* r and column c below node n; a level without a node contributes 1.
RECURSIVE PathProduct(_, _, _, _)
PathProduct(d, n, r, c) ==
    IF n = get_true(d) THEN weight_one
    ELSE LET nd == d.node_pool[n + 1]
             slot == p * r[nd.var] + c[nd.var] + 1
         IN  IF nd.weights[slot] = weight_0_handle THEN weight_zero
             ELSE Times(get_weight_value(d, nd.weights[slot]),
                        PathProduct(d, nd.children[slot], r, c))

MatrixEntry(d, e, r, c) ==
    Times(get_weight_value(d, e.w), PathProduct(d, e.v, r, c))

NotOnLastOfTwo ==
    /\ spec.num_variables = 2
    /\ spec.gate_stream = <<toffoli, 1, 1>>
    /\ gate_streams = <<>>

(***************************************************************************)
(* C7. Compiler correctness on reversible gates: in every state of a       *)
(* circuit of Toffoli and Fredkin gates, entry (r, c) of the matrix read   *)
(* off the accumulator is 1 if the gates compiled so far, applied in       *)
(* order, take basis state c to r, and 0 otherwise; and an uncontrolled    *)
(* NOT on the last of two variables leaves a root of weight 1 on a var-0   *)
(* node of weights (1,0,0,1) whose slots 0 and 3 share one var-1 node of   *)
(* weights (0,1,1,0) over the terminal.                                    *)
(***************************************************************************)
C7_CompilerCorrect ==
    /\ \A c \in BitVectors :
          \E image \in {CircuitRef(GatesDone, c)} :
              \A r \in BitVectors :
                  MatrixEntry(dd, root, r, c) =
                      IF r = image THEN weight_one ELSE weight_zero
    /\ NotOnLastOfTwo =>
          /\ root.w = weight_1_handle
          /\ root.v # get_true(dd)
          /\ LET top == dd.node_pool[root.v + 1]
                 low == dd.node_pool[top.children[1] + 1]
             IN  /\ top.var = 0
                 /\ top.weights = <<weight_1_handle, weight_0_handle,
                                    weight_0_handle, weight_1_handle>>
                 /\ top.children[1] = top.children[4]
                 /\ top.children[1] # get_true(dd)
                 /\ low.var = 1
                 /\ low.weights = <<weight_0_handle, weight_1_handle,
                                    weight_1_handle, weight_0_handle>>
                 /\ \A i \in 1 .. p * p : low.children[i] = get_true(dd)

\* A circuit was compiled to its end that holds a Fredkin gate with a
\* control and a Toffoli gate with a control below its target.
C7_Witness ==
    /\ gate_streams = <<>>
    /\ \E k, m \in 1 .. Len(GatesDone) :
          /\ GatesDone[k].op = fredkin
          /\ Len(GatesDone[k].params) = 3
          /\ GatesDone[m].op = toffoli
          /\ Len(GatesDone[m].params) >= 2
          /\ GatesDone[m].params[1] > GatesDone[m].params[Len(GatesDone[m].params)]

(***************************************************************************)
(* C8. Additive identity: for every edge e the engine has produced,        *)
(* apply(e, zero_edge, add) and apply(zero_edge, e, add) both return e,    *)
(* the same weight handle on the same node handle.                         *)
(***************************************************************************)
C8_AdditiveIdentity ==
    \A e \in EngineEdges :
        /\ apply(dd, e, zero_edge, edge_op_add).r = e
        /\ apply(dd, zero_edge, e, edge_op_add).r = e

\* e is on a node above the last variable with a slot of non-zero weight on
\* the terminal: the levels below are skipped, the block is a constant.
HasConstantBlock(e) ==
    /\ e.v # get_true(dd)
    /\ x(dd, e) < dd.num_vars - 1
    /\ \E i \in Slots :
          /\ Ei(dd, e, i).v = get_true(dd)
          /\ Ei(dd, e, i).w # weight_0_handle

\* The engine has produced an edge of weight neither 0 nor 1 with a constant
\* block, whose sum with zero_edge is not in the cache: add rebuilds it slot
\* by slot.
C8_Witness ==
    /\ SomeGateDone
    /\ \E e \in EngineEdges :
          /\ HasConstantBlock(e)
          /\ e.w \notin {weight_0_handle, weight_1_handle}
          /\ computed_table_find(dd, e, zero_edge, edge_op_add).v = invalid_node

\* identitySubtree[k] for k the top variable of e.
one_edge(e) == identitySubtree[x(dd, e)]

(***************************************************************************)
(* C9. Multiplicative identity: for every edge e the engine has produced,  *)
(* with one_edge the identity diagram over the variables from the top      *)
(* variable of e on, apply(one_edge, e, mul) and apply(e, one_edge, mul)   *)
(* both return e.                                                          *)
(***************************************************************************)
C9_MultiplicativeIdentity ==
    \A e \in EngineEdges :
        /\ apply(dd, one_edge(e), e, edge_op_mul).r = e
        /\ apply(dd, e, one_edge(e), edge_op_mul).r = e

(***************************************************************************)
(* C10. Multiplication by zero: for every edge e the engine has produced,  *)
(* apply(e, zero_edge, mul) returns zero_edge.                             *)
(***************************************************************************)
C10_MulByZero ==
    \A e \in EngineEdges : apply(dd, e, zero_edge, edge_op_mul).r = zero_edge

\* The circuit was compiled to its end and the accumulator, of weight
\* neither 0 nor 1, has a constant block and a block on a node: the product
\* with zero_edge meets a terminal first operand of weight other than 0 and 1
\* and recurses through sums of zeros.
C10_Witness ==
    /\ gate_streams = <<>>
    /\ HasConstantBlock(root)
    /\ root.w \notin {weight_0_handle, weight_1_handle}
    /\ \E i \in Slots : Ei(dd, root, i).v # get_true(dd)

(***************************************************************************)
(* C11. add is commutative: for all edges a and b the engine has produced, *)
(* with equal or different top variables, terminal or not,                 *)
(* apply(a, b, add) and apply(b, a, add) return the same edge.             *)
(***************************************************************************)
C11_AddCommutative ==
    \A a, b \in EngineEdges :
        apply(dd, a, b, edge_op_add).r = apply(dd, b, a, edge_op_add).r

\* Among the edges produced are two on nodes of different variables whose
\* sum the second way round is not in the cache, and a terminal edge of
\* weight other than 0 and 1.
C11_Witness ==
    /\ SomeGateDone
    /\ \E a, b \in EngineEdges :
          /\ x(dd, a) < x(dd, b)
          /\ ~term(dd, b)
          /\ computed_table_find(dd, b, a, edge_op_add).v = invalid_node
    /\ \E c \in EngineEdges :
          /\ term(dd, c)
          /\ w(c) \notin {weight_0_handle, weight_1_handle}

\* In engine d, the calls apply(apply(a, b, op), c, op) and then
\* apply(a, apply(b, c, op), op), one after the other as a program makes
\* them, return the same edge and none of them ends the process.
AssociativeFor(d, a, b, c, op) ==
    \E ab \in {apply(d, a, b, op)} :
    \E left \in {apply(ab.dd, ab.r, c, op)} :
    \E bc \in {apply(left.dd, b, c, op)} :
    \E right \in {apply(bc.dd, a, bc.r, op)} :
        /\ ~right.dd.aborted
        /\ left.r = right.r

(***************************************************************************)
(* C12. mul is associative: for all edges a, b and c the engine has        *)
(* produced, apply(apply(a, b, mul), c, mul) and                           *)
(* apply(a, apply(b, c, mul), mul) are the same edge.                      *)
(***************************************************************************)
C12_MulAssociative ==
    \A a, b, c \in EngineEdges : AssociativeFor(dd, a, b, c, edge_op_mul)

\* The weight tables of the first two operands of C13, drawn from two gates
\* with weights other than 0 and 1 and a projection.
KroPairs ==
    {<<gate_weights[hadamard], gate_weights[pauli_y]>>,
     <<gate_weights[pauli_y], if_true_weights>>,
     <<if_true_weights, gate_weights[hadamard]>>}

\* The compiler's building block on variable var_id with the weights wts,
\* made in engine d.
block_node(d, var_id, wts) == make_node(d, var_id, identity_children(d), wts)

\* kro(kro(a, b), c) and kro(a, kro(b, c)) give the same edge, for a the
\* block of wa on var 0 and b the block of wb on var 1, both made first.
KroAssociativeFor(wa, wb, c) ==
    \E na \in {block_node(dd, 0, wa)} :
    \E nb \in {block_node(na.dd, 1, wb)} :
        AssociativeFor(nb.dd, edge_of_node(na.r), edge_of_node(nb.r), c,
                       edge_op_kro)

\* Edges below variable 1, on the last variable or terminal: the identity
\* diagrams, the zero edge and the engine's edges of weight other than 0
\* and 1.
BelowVar1 ==
    {identitySubtree[2], identitySubtree[spec.num_variables], zero_edge}
        \cup {e \in EngineEdges :
                 x(dd, e) > 1 /\ w(e) \notin {weight_0_handle, weight_1_handle}}

(***************************************************************************)
(* C13. kro is associative: for a a block on var 0, b a block on var 1 and *)
(* c an edge over the variables below (on var 2 or terminal),              *)
(* apply(apply(a, b, kro), c, kro) and apply(a, apply(b, c, kro), kro)     *)
(* are the same edge, and no call fails the assertion of kro.              *)
(***************************************************************************)
C13_KroAssociative ==
    \A ws \in KroPairs : \A c \in BelowVar1 : KroAssociativeFor(ws[1], ws[2], c)

\* A gate was compiled and among the third operands are an edge on a node
\* and a terminal edge, each with a weight other than 0 and 1.
C13_Witness ==
    /\ SomeGateDone
    /\ \E c \in BelowVar1 :
          ~term(dd, c) /\ w(c) \notin {weight_0_handle, weight_1_handle}
    /\ \E c \in BelowVar1 :
          term(dd, c) /\ w(c) \notin {weight_0_handle, weight_1_handle}

\* The circuit is a gate of opcode op followed by a gate of opcode op2 with
\* the same operands, and both are compiled.
BothCompiled(op, op2) ==
    /\ gate_streams = <<>>
    /\ Len(GatesDone) = 2
    /\ GatesDone[1].op = op
    /\ GatesDone[2].op = op2
    /\ GatesDone[1].params = GatesDone[2].params

(***************************************************************************)
(* C14. Self-inverse gates: after the same Toffoli, Hadamard, Pauli-Y or   *)
(* Pauli-Z gate (any target, any controls, one to three variables) was     *)
(* compiled twice from the initial identity, the accumulator is the edge   *)
(* identitySubtree[0], weight handle and node handle.                      *)
(***************************************************************************)
C14_SelfInverse ==
    \A op \in {toffoli, hadamard, pauli_y, pauli_z} :
        BothCompiled(op, op) => root = identitySubtree[0]

\* For each of the four opcodes a circuit is compiled whose gate has a
\* control above and a control below its target.
C14_Reached(op) ==
    /\ BothCompiled(op, op)
    /\ Len(GatesDone[1].params) = 3
    /\ GatesDone[1].params[1] < GatesDone[1].params[3]
    /\ GatesDone[1].params[3] < GatesDone[1].params[2]

C14_Witness == C14_Reached(hadamard)

\* The accumulator that compiling the instruction (op, params) as the first
\* gate of a circuit leaves, computed in the engine as it is now.
compiled_alone(op, params) ==
    mul_into_root(build_gate(dd, arg_order, identitySubtree, gate_weights[op],
                             spec.num_variables, params),
                  identitySubtree[0]).root

(***************************************************************************)
(* C15. Square-root-of-NOT composition: after the same sqrtnot gate (any   *)
(* target, any controls) was compiled twice from the initial identity, the *)
(* accumulator is the edge that compiling one Toffoli gate with the same   *)
(* operands from the initial identity gives in the same engine.            *)
(***************************************************************************)
C15_SqrtNotTwice ==
    BothCompiled(sqrtnot, sqrtnot)
        => root = compiled_alone(toffoli, GatesDone[1].params)

\* Two controlled sqrtnot gates with a control above and one below the
\* target are compiled.
C15_Witness == C14_Reached(sqrtnot)

(***************************************************************************)
(* C16. T followed by its inverse: after rotate_pi_by_4 and then           *)
(* inv_rotate_pi_by_4 on the same variable (and with the same controls)    *)
(* were compiled from the initial identity, the accumulator is the edge    *)
(* identitySubtree[0], weight handle and node handle.                      *)
(***************************************************************************)
C16_RotateThenInverse ==
    BothCompiled(rotate_pi_by_4, inv_rotate_pi_by_4)
        => root = identitySubtree[0]

\* The two rotations are compiled on the last of three variables, without
\* controls.
C16_Witness ==
    /\ BothCompiled(rotate_pi_by_4, inv_rotate_pi_by_4)
    /\ GatesDone[1].params = <<spec.num_variables - 1>>
    /\ spec.num_variables = MaxRevVars

\* The accumulator after the Toffoli gates of the operand lists gates are
\* compiled one after the other in engine d, from accumulator r.
RECURSIVE compiled_toffolis(_, _, _)
compiled_toffolis(d, r, gates) ==
    IF gates = <<>> THEN r
    ELSE LET s == mul_into_root(
                      build_gate(d, arg_order, identitySubtree,
                                 gate_weights[toffoli], spec.num_variables,
                                 Head(gates)),
                      r)
         IN  compiled_toffolis(s.dd, s.root, Tail(gates))

\* The Fredkin gate with control a and swap targets b, c on the three
\* variables a < b < c is compiled, and nothing else.
FredkinABC ==
    /\ spec.num_variables = 3
    /\ spec.gate_stream = <<fredkin, 3, 0, 1, 2>>
    /\ gate_streams = <<>>

(***************************************************************************)
(* C17. Fredkin versus manual Toffolis, as claimed: on three variables     *)
(* a < b < c, the accumulator after the Fredkin gate with control a and    *)
(* swap targets b, c is the edge that compiling t2 b,c ; t3 a,b,c ;        *)
(* t2 b,c (last operand the target) from the initial identity gives.       *)
(***************************************************************************)
C17_FredkinAsClaimed ==
    FredkinABC
        => root = compiled_toffolis(dd, identitySubtree[0],
                                    <<<<1, 2>>, <<0, 1, 2>>, <<1, 2>>>>)

\* C17 as amended: the accumulator after that Fredkin gate is the edge that
\* compiling t2 c,b ; t3 a,b,c ; t2 c,b from the initial identity gives: the
\* outer two gates have control c and target b.
C17_FredkinExpansion ==
    FredkinABC
        => root = compiled_toffolis(dd, identitySubtree[0],
                                    <<<<2, 1>>, <<0, 1, 2>>, <<2, 1>>>>)

\* That Fredkin gate is compiled, by three gates of the microcode.
C17_Witness ==
    /\ FredkinABC
    /\ fredkin_microcode = <<toffoli, 2, 2, 1, toffoli, 3, 0, 1, 2, toffoli, 2, 2, 1>>
    /\ root # identitySubtree[0]

\* In engine d, apply(e0, e1, mul) and then apply(e1, e0, mul) return the
\* same edge.
SameAsSwappedProduct(d, e0, e1) ==
    \E first \in {apply(d, e0, e1, edge_op_mul)} :
        first.r = apply(first.dd, e1, e0, edge_op_mul).r

(***************************************************************************)
(* C18. mul argument-order normalization: for engine edges e0 and e1 with  *)
(* e0 not terminal and var(e0) > var(e1), apply(e0, e1, mul) returns the   *)
(* edge of the product taken with the operands swapped,                    *)
(* apply(e1, e0, mul).                                                     *)
(***************************************************************************)
C18_MulOrdersOperands ==
    \A e0, e1 \in EngineEdges :
        (~term(dd, e0) /\ x(dd, e0) > x(dd, e1))
            => SameAsSwappedProduct(dd, e0, e1)

\* The entries of the edge cache written by kro calls.
KroEntries ==
    {dd.computedtb[k] : k \in {j \in DOMAIN dd.computedtb :
                                  dd.computedtb[j].op = edge_op_kro}}

(***************************************************************************)
(* C19. Kronecker precondition: for every gate stream the parser lets      *)
(* through and every microcoded expansion, the assertion of kro never      *)
(* fails (the process is never ended), and every kro call recorded in the  *)
(* cache has a terminal e0 or var(e0) < var(e1).                           *)
(***************************************************************************)
C19_KroPrecondition ==
    /\ ~dd.aborted
    /\ \A c \in KroEntries : term(dd, c.e0) \/ x(dd, c.e0) < x(dd, c.e1)

\* A Fredkin gate with a control was compiled to its end, one of whose swap
\* targets is also its control, and the cache holds a kro call of two edges
\* on nodes.
C19_Witness ==
    /\ gate_streams = <<>>
    /\ Len(spec.gate_stream) = 5
    /\ spec.gate_stream[1] = fredkin
    /\ spec.gate_stream[5] = spec.gate_stream[3]
    /\ \E c \in KroEntries : ~term(dd, c.e0) /\ ~term(dd, c.e1)

\* Nodes on a variable of the circuit with one pool node below it as every
\* child and the weights of a gate, that are not redundant and not in the
\* pool: a make_node call with one of them needs a new node.
NewNodes ==
    {n \in {node(var, [i \in 1 .. p * p |-> h], gate_weights[op]) :
                var \in 0 .. spec.num_variables - 1,
                h \in {k \in 0 .. Len(dd.node_pool) - 1 :
                          get_var(dd, k) = spec.num_variables},
                op \in SingleTargetOpcodes} :
        /\ \E i \in 1 .. p * p : n.weights[i] # n.weights[1]
        /\ \A k \in 0 .. Len(dd.node_pool) - 1 : to_node(dd, k) # n}

PoolFull == ~dd.aborted /\ Len(dd.node_pool) = dd.capacity

(***************************************************************************)
(* C20. Node capacity: the node pool never holds more than capacity nodes  *)
(* and every unique-table slot holds the handle of a pool node; when the   *)
(* pool holds capacity nodes, a make_node call that needs a new node ends  *)
(* the process, returns no handle, and leaves the unique table and the     *)
(* pool as they were.                                                      *)
(***************************************************************************)
C20_NodeCapacity ==
    /\ Len(dd.node_pool) <= dd.capacity
    /\ \A k \in DOMAIN dd.table : dd.table[k] < Len(dd.node_pool)
    /\ PoolFull =>
           \A n \in NewNodes :
               \E m \in {make_node(dd, n.var, n.children, n.weights)} :
                   /\ m.dd.aborted
                   /\ m.r = invalid_node
                   /\ m.dd.table = dd.table
                   /\ m.dd.node_pool = dd.node_pool

\* A gate was compiled and left the pool with exactly capacity nodes, the
\* process still running, and some make_node call would need a new node.
C20_Witness == PoolFull /\ SomeGateDone /\ NewNodes # {}

(***************************************************************************)
(* C23. normalize: on four weight handles w, if all are W0 it returns W0   *)
(* and leaves w unchanged; otherwise, with k the first index where         *)
(* w[k] # W0, it returns the old w[k], leaves w[j] unchanged for j < k,    *)
(* sets w[k] to W1, and sets each w[j] for j > k to old w[j] / old w[k],   *)
(* so that the returned factor times the new w[j] is the old w[j].         *)
(* Checked for every array of the handles 0 .. MaxNormHandle that the      *)
(* engine has interned.                                                    *)
(***************************************************************************)
NormalizeHandles ==
    {h \in 0 .. MaxNormHandle : h < Len(dd.weights)}

NormalizeArgs ==
    {<<a, b, c, d>> : a \in NormalizeHandles, b \in NormalizeHandles,
                      c \in NormalizeHandles, d \in NormalizeHandles}

NormalizeAsClaimed(ws, n) ==
    IF \A i \in 1 .. p * p : ws[i] = weight_0_handle
    THEN n.r = weight_0_handle /\ n.children = ws
    ELSE LET k == FirstNonZero(ws)
         IN  /\ n.r = ws[k]
             /\ n.children[k] = weight_1_handle
             /\ \A j \in 1 .. (k - 1) : n.children[j] = ws[j]
             /\ \A j \in (k + 1) .. (p * p) :
                   /\ weight_value_eq(
                          get_weight_value(n.dd, n.children[j]),
                          weight_div[get_weight_value(dd, ws[j]),
                                     get_weight_value(dd, ws[k])])
                   /\ apply_weight(n.dd, n.r, n.children[j],
                                   weight_op_mul).r = ws[j]

C23_Normalize ==
    \A ws \in NormalizeArgs : NormalizeAsClaimed(ws, normalize(dd, ws))

\* An array whose first weight is neither W0 nor W1 and whose second weight
\* is divided into a weight that is neither of them nor the old one.
C23_Witness ==
    /\ SomeGateDone
    /\ \E ws \in NormalizeArgs :
          /\ ws[1] \notin {weight_0_handle, weight_1_handle}
          /\ ws[2] \notin {weight_0_handle, ws[1]}
          /\ normalize(dd, ws).children[2]
                 \notin {weight_0_handle, weight_1_handle, ws[2]}

(***************************************************************************)
(* C24. make_node collapse: when all four children are the same NodeId     *)
(* and all four weights the same WeightId, make_node returns children[0]   *)
(* and leaves the node pool and the unique table unchanged; in every other *)
(* case it returns the result of unique_table.insert for that tuple.       *)
(* Checked for the arrays of children over the terminal and the newest     *)
(* node and the arrays of weights over W0 and W1 and, for the collapse,    *)
(* over every interned weight.                                             *)
(***************************************************************************)
FourOf(S) == {<<a, b, c, d>> : a \in S, b \in S, c \in S, d \in S}

MakeNodeArgs ==
    {node(var, cs, ws) :
        var \in 0 .. (spec.num_variables - 1),
        cs \in FourOf({get_true(dd), Len(dd.node_pool) - 1}),
        ws \in FourOf({weight_0_handle, weight_1_handle})}
    \cup {node(var, <<c, c, c, c>>, <<h, h, h, h>>) :
             var \in 0 .. (spec.num_variables - 1),
             c \in Handles, h \in 0 .. (Len(dd.weights) - 1)}

MakeNodeAsClaimed(n, m, ins) ==
    IF AllEqual(n)
    THEN /\ m.r = n.children[1]
         /\ m.dd.node_pool = dd.node_pool
         /\ m.dd.table = dd.table
    ELSE /\ m.r = ins.r
         /\ m.dd.node_pool = ins.dd.node_pool
         /\ m.dd.table = ins.dd.table

C24_MakeNodeCollapse ==
    \A n \in MakeNodeArgs :
        MakeNodeAsClaimed(n, make_node(dd, n.var, n.children, n.weights),
                          unique_table_insert(dd, n.var, n.children, n.weights))

\* After a gate: a tuple that collapses onto a non-terminal node, a tuple
\* with four equal weights and unequal children that insert allocates, and
\* a tuple that insert finds in the table.
C24_Witness ==
    /\ SomeGateDone
    /\ \E n \in MakeNodeArgs :
          AllEqual(n) /\ n.children[1] # get_true(dd)
              /\ n.weights[1] \notin {weight_0_handle, weight_1_handle}
    /\ \E n \in MakeNodeArgs :
          /\ ~AllEqual(n)
          /\ \A i \in 1 .. p * p : n.weights[i] = n.weights[1]
          /\ Len(make_node(dd, n.var, n.children, n.weights).dd.node_pool)
                 = Len(dd.node_pool) + 1
    /\ \E n \in MakeNodeArgs :
          /\ ~AllEqual(n)
          /\ make_node(dd, n.var, n.children, n.weights).r \in NonTerminals
          /\ make_node(dd, n.var, n.children, n.weights).dd.node_pool
                 = dd.node_pool

(***************************************************************************)
(* C27. apply terminates: for two edges whose diagrams satisfy the         *)
(* variable ordering (and, for kro, its precondition), apply(e0, e1, op)   *)
(* returns, and every nested apply call is either answered by a terminal   *)
(* case or has operands whose smaller top variable is strictly greater     *)
(* than the smaller top variable of the caller's operands.  Checked for    *)
(* e0 among the edges of the compiler and the edges of weight W1 to every  *)
(* node of the pool, and e1 among the edges of the compiler.               *)
(***************************************************************************)
ApplyOperands == EngineEdges \cup {edge_of_node(h) : h \in Handles}

nested(d, q0, q1, op) == [dd |-> d, e0 |-> q0, e1 |-> q1, op |-> op]

\* The case of add, mul or kro that returns without a nested call.
TerminalCase(d, q0, q1, op) ==
    IF op = edge_op_add
    THEN term(d, q0) /\ (w(q0) = weight_0_handle \/ term(d, q1))
    ELSE term(d, q0)

SmallerTop(d, q0, q1) ==
    IF x(d, q0) < x(d, q1) THEN x(d, q0) ELSE x(d, q1)

\* The calls dd->apply(q0, q1, edge_op_add) of the loop of add.
AddCalls(d, e0, e1) ==
    {nested(d, scaled_child(d, e0, i).r, second_operand(d, e0, e1, i).r,
            edge_op_add) : i \in Slots}

\* The calls of the loop over k of mul for one slot i + j: the two products
\* dd->apply(q0, q1, edge_op_mul) and the two sums
\* dd->apply(zij, q0q1, edge_op_add).
MulCallsOf(d, e0, e1, i, j) ==
    LET q00 == scaled_child(d, e0, i)
        t0 == mul_term_q1(e0, e1, j, 0, q00)
        s1 == mul_sum_add(edge(weight_0_handle, get_true(d)), t0)
        q01 == scaled_child(s1.dd, e0, i + 1)
        t1 == mul_term_q1(e0, e1, j, 1, q01)
    IN  {nested(d, q00.r, second_operand(q00.dd, e0, e1, j).r, edge_op_mul),
         nested(t0.dd, edge(weight_0_handle, get_true(d)), t0.r, edge_op_add),
         nested(s1.dd, q01.r, second_operand(q01.dd, e0, e1, j + p).r,
                edge_op_mul),
         nested(t1.dd, s1.r, t1.r, edge_op_add)}

MulCalls(d, e0, e1) ==
    UNION {MulCallsOf(d, e0, e1, (slot \div p) * p, slot % p) : slot \in Slots}

KroCalls(d, e0, e1) ==
    {nested(d, Ei(d, e0, i), e1, edge_op_kro) : i \in Slots}

\* The apply calls that add, mul or kro makes for the operands e0, e1.
NestedCalls(d, e0, e1, op) ==
    IF TerminalCase(d, e0, e1, op) THEN {}
    ELSE IF op = edge_op_kro
    THEN IF x(d, e0) < x(d, e1) THEN KroCalls(d, e0, e1) ELSE {}
    ELSE IF x(d, e0) > x(d, e1) THEN AddCalls(d, e1, e0)
    ELSE IF op = edge_op_add THEN AddCalls(d, e0, e1)
    ELSE MulCalls(d, e0, e1)

ApplyReturned(r) ==
    \/ r.dd.aborted
    \/ r.r.v \in 0 .. (Len(r.dd.node_pool) - 1)
          /\ r.r.w \in 0 .. (Len(r.dd.weights) - 1)

C27_ApplyTerminates ==
    \A e0 \in ApplyOperands, e1 \in EngineEdges, op \in C6_Ops :
        (op = edge_op_kro => term(dd, e0) \/ x(dd, e0) < x(dd, e1))
        => /\ ApplyReturned(apply(dd, e0, e1, op))
           /\ \A c \in NestedCalls(dd, e0, e1, op) :
                 \/ TerminalCase(c.dd, c.e0, c.e1, c.op)
                 \/ SmallerTop(c.dd, c.e0, c.e1) > SmallerTop(dd, e0, e1)

\* After a gate, a product of two non-terminal edges on the same variable
\* with a nested sum and a nested product that no terminal case answers.
C27_Witness ==
    /\ SomeGateDone
    /\ \E e0 \in ApplyOperands, e1 \in EngineEdges :
          /\ x(dd, e0) = x(dd, e1)
          /\ ~term(dd, e0)
          /\ \E c \in NestedCalls(dd, e0, e1, edge_op_mul) :
                c.op = edge_op_add /\ ~TerminalCase(c.dd, c.e0, c.e1, c.op)
          /\ \E c \in NestedCalls(dd, e0, e1, edge_op_mul) :
                c.op = edge_op_mul /\ ~TerminalCase(c.dd, c.e0, c.e1, c.op)

(***************************************************************************)
(* C28. Canonical zero edge: starting from the compiler's building blocks, *)
(* every edge with weight W0 returned by apply (add, mul or kro), and      *)
(* every slot with weight W0 in a node created by apply, points to the     *)
(* terminal; no operator returns (W0, v) with v a non-terminal node.       *)
(* Checked for the edges and nodes of the run and, in every state, for     *)
(* the results of add, mul and kro on the accumulator and the last gate    *)
(* with the edges of the compiler, the zero edge and the accumulator       *)
(* under every interned weight but W0.                                     *)
(***************************************************************************)
ZeroEdgeCanonical(d, e) == e.w = weight_0_handle => e.v = get_true(d)

ZeroSlotsCanonical(d) ==
    \A k \in 1 .. Len(d.node_pool), i \in 1 .. p * p :
        d.node_pool[k].weights[i] = weight_0_handle
            => d.node_pool[k].children[i] = get_true(d)

C28_Right ==
    C6_Right \cup {zero_edge}
        \cup {edge(h, root.v) : h \in 1 .. (Len(dd.weights) - 1)}

ZeroCanonicalAfter(r) ==
    r.dd.aborted \/ (ZeroEdgeCanonical(r.dd, r.r) /\ ZeroSlotsCanonical(r.dd))

C28_CanonicalZeroEdge ==
    /\ ZeroSlotsCanonical(dd)
    /\ \A e \in EngineEdges : ZeroEdgeCanonical(dd, e)
    /\ \A e0 \in C6_Left \cup {zero_edge}, e1 \in C28_Right, op \in C6_Ops :
          (op = edge_op_kro => term(dd, e0) \/ x(dd, e0) < x(dd, e1))
              => ZeroCanonicalAfter(apply(dd, e0, e1, op))

\* After a gate: the sum of the accumulator and the accumulator under
\* another weight cancels to the zero edge, the accumulator has a slot of
\* weight W0, and a product with the zero edge is the zero edge.
C28_Witness ==
    /\ SomeGateDone
    /\ ~term(dd, root)
    /\ \E i \in Slots : get_weight(dd, root.v, i) = weight_0_handle
    /\ \E e1 \in C28_Right :
          e1.v = root.v /\ apply(dd, root, e1, edge_op_add).r = zero_edge
    /\ apply(dd, root, zero_edge, edge_op_mul).r = zero_edge

(***************************************************************************)
(* C29. Probe termination: in every reachable state the number of          *)
(* occupied unique-table slots is the number of pool nodes minus one (the  *)
(* terminal is in the pool but not in the table), hence at most            *)
(* capacity - 1, so the linear probe of insert reaches a matching node or  *)
(* an empty slot within capacity steps of the hash slot.  Checked on the   *)
(* engines of 2, 4 and 8 entries for every node of the pool and every new  *)
(* node of NewNodes.                                                       *)
(***************************************************************************)
OccupiedSlots == Cardinality(DOMAIN dd.table)

\* The probe from the hash slot of n ends at its k-th step.
ProbeEndsAt(n, k) ==
    LET slot == (unique_table_hash(dd, n.var, n.children, n.weights) + k)
                    % dd.capacity
    IN  slot \notin DOMAIN dd.table \/ to_node(dd, dd.table[slot]) = n

ProbedNodes == NewNodes \cup {to_node(dd, h) : h \in NonTerminals}

C29_ProbeTerminates ==
    /\ OccupiedSlots = Len(dd.node_pool) - 1
    /\ OccupiedSlots <= dd.capacity - 1
    /\ DOMAIN dd.table \subseteq 0 .. (dd.capacity - 1)
    /\ \A n \in ProbedNodes : \E k \in 0 .. (dd.capacity - 1) : ProbeEndsAt(n, k)

\* After a gate the pool is full, one slot of the table is left, and the
\* probe for a new node starts on an occupied slot and steps on.
C29_Witness ==
    /\ SomeGateDone
    /\ OccupiedSlots = dd.capacity - 1
    /\ \E n \in NewNodes : ~ProbeEndsAt(n, 0) /\ ~ProbeEndsAt(n, 1)

(***************************************************************************)
(* C25. Driver ordering: for a well-formed gate stream g1 .. gm the        *)
(* driver multiplies the gates into the accumulator in stream order, each  *)
(* non-Fredkin gate exactly once; a Fredkin gate at position i is replaced *)
(* in place by its three microcode Toffolis, all applied after g(i-1) and  *)
(* before g(i+1); the cursor stack never holds more than two streams, the  *)
(* microcode buffer is never rewritten while a cursor still points into    *)
(* it, and the loop ends with an empty stack.                              *)
(***************************************************************************)
Instructions(data) == InstrsUpTo(data, 0, Len(data))

\* gs with every Fredkin gate replaced by the gates of its microcode.
RECURSIVE Expanded(_)
Expanded(gs) ==
    IF gs = <<>> THEN <<>>
    ELSE (IF Head(gs).op = fredkin
          THEN Instructions(fredkin_expand(Head(gs).params))
          ELSE <<Head(gs)>>) \o Expanded(Tail(gs))

\* The instructions multiplied in are those before the cursor of the input,
\* a Fredkin gate expanded in place; while its microcode is on the stack,
\* the microcode up to its cursor stands for the Fredkin gate.
ExecutedInOrder ==
    LET all == Instructions(spec.gate_stream)
        before == InstrsUpTo(spec.gate_stream, 0, gate_streams[1].offset)
    IN  CASE gate_streams = <<>> -> executed = Expanded(all)
          [] Len(gate_streams) = 1 -> executed = Expanded(before)
          [] OTHER ->
               /\ before[Len(before)].op = fredkin
               /\ fredkin_microcode = fredkin_expand(before[Len(before)].params)
               /\ executed = Expanded(SubSeq(before, 1, Len(before) - 1))
                                 \o InstrsUpTo(fredkin_microcode, 0,
                                               gate_streams[2].offset)

\* A step that pushes a stream, the only step that writes the microcode
\* buffer, starts with no cursor into the buffer.
MicrocodeStable ==
    Len(gate_streams') > Len(gate_streams)
        => \A k \in 1 .. Len(gate_streams) :
              gate_streams[k].stream # "fredkin_microcode"

C25_DriverOrdering ==
    /\ [](ExecutedInOrder /\ Len(gate_streams) <= 2)
    /\ [][MicrocodeStable]_vars
    /\ <>(gate_streams = <<>>)

\* The loop has ended on a circuit of a Hadamard gate, a Fredkin gate and
\* a Hadamard gate: five instructions were multiplied in.
C25_Witness ==
    /\ gate_streams = <<>>
    /\ Len(Instructions(spec.gate_stream)) = 3
    /\ Instructions(spec.gate_stream)[1].op = hadamard
    /\ Instructions(spec.gate_stream)[2].op = fredkin
    /\ Instructions(spec.gate_stream)[3].op = hadamard
    /\ Len(executed) = 5

(***************************************************************************)
(* C26. Operand order seen by the compiler.  As claimed: for an input      *)
(* whose gates all list their operands in strictly increasing order, every *)
(* instruction the driver executes, the Toffolis of a Fredkin expansion    *)
(* included, has its operands in strictly increasing order.                *)
(***************************************************************************)
StrictlyIncreasing(s) == \A k \in 1 .. (Len(s) - 1) : s[k] < s[k + 1]

InputIncreasing ==
    \A k \in 1 .. Len(Instructions(spec.gate_stream)) :
        StrictlyIncreasing(Instructions(spec.gate_stream)[k].params)

ControlsThenTarget(params) ==
    /\ Len(params) >= 1
    /\ StrictlyIncreasing(SubSeq(params, 1, Len(params) - 1))
    /\ \A j \in 1 .. (Len(params) - 1) : params[j] # params[Len(params)]

LineDeclared ==
    \A k \in DOMAIN parser.line.list :
        parser.line.list[k] \in DOMAIN spec.variable_name_to_id

LineIds ==
    [k \in DOMAIN parser.line.list |->
        spec.variable_name_to_id[parser.line.list[k]]]

OutOfOrder(ids) == \E k \in 1 .. Len(ids) - 1 : ids[k] >= ids[k + 1]

\* C21: every gate line whose list of variables is not in strictly
\* increasing order of variable id over the whole list, the last operand
\* included, is rejected: parse_spec throws, and so returns no gate stream.
C21_OrderCheck ==
    (/\ parser.line.tag = "gate"
     /\ LineDeclared
     /\ OutOfOrder(LineIds))
    => parser.thrown # ""

\* ---------------------------------------------------------------------
\* C22  The constant listing .c
\* ---------------------------------------------------------------------

\* The line read last is a .c line whose list parse_spec came to read:
\* .v and .i were read before it, no .c was, and BEGIN was not.
ConstantLineRead ==
    /\ parser.line.tag = ".c"
    /\ parser.state = "reading_tags"
    /\ parser.thrown \notin {"missing variable listing (.v)",
                             "missing input variable listing (.i)",
                             "duplicate constant input variable listing (.c)"}

\* The ids of the variables that .i does not list, in increasing order.
NonInputIds ==
    {id \in 0 .. spec.num_variables - 1 :
        spec.variable_input_list_index[id + 1] = -1}

RECURSIVE Ascending(_)
Ascending(S) ==
    IF S = {} THEN <<>>
    ELSE LET least == CHOOSE lo \in S : \A other \in S : lo <= other
         IN  <<least>> \o Ascending(S \ {least})

\* C22: a .c line is accepted iff it lists exactly as many constants as
\* there are non-input variables, wherever the input variables sit, and
\* then the k-th constant is the constant input of the k-th non-input
\* variable in the order of the variable ids.
C22_ConstantListing ==
    ConstantLineRead =>
        /\ (parser.thrown = "")
               <=> (Len(parser.line.list) = Cardinality(NonInputIds))
        /\ (parser.thrown = "") =>
               \A k \in 1 .. Len(parser.line.list) :
                   k <= Cardinality(NonInputIds) =>
                       spec.variable_constant_input[Ascending(NonInputIds)[k] + 1]
                           = parser.line.list[k]

\* ---------------------------------------------------------------------
\* C30  Well-formedness of the gate stream the parser returns
\* ---------------------------------------------------------------------

\* The walk of the driver's cursor over a stream: at offset (0-based) it
\* reads the opcode and the count n and advances by 2 + n. WalkEnds is
\* TRUE iff every instruction lies within the stream, offset + 2 + n <=
\* size, and the walk ends exactly at the size.
RECURSIVE WalkEnds(_, _)
WalkEnds(data, offset) ==
    IF offset = Len(data) THEN TRUE
    ELSE IF offset + 2 > Len(data) THEN FALSE
    ELSE IF offset + 2 + data[offset + 2] > Len(data) THEN FALSE
    ELSE WalkEnds(data, offset + 2 + data[offset + 2])

\* C30: for every input parse_spec accepts, each instruction of
\* gate_stream is an opcode, a count n and exactly n operands: the cursor
\* of the driver stays within the stream at every instruction and ends
\* exactly at its size.
C30_StreamWellFormed ==
    parser.returned => WalkEnds(spec.gate_stream, 0)

=============================================================================
